---- MODULE Spec2Model ----
(***************************************************************************)
(* A model of the inja template engine (MinLL/inja):                       *)
(*   - CallbackCache      (include/inja/callback_cache.hpp)                *)
(*   - Environment        (include/inja/environment.hpp)                   *)
(*   - Renderer           (include/inja/renderer.hpp)                      *)
(*   - FunctionStorage    (include/inja/function_storage.hpp)              *)
(* Several specifications share the module: CacheSpec (threads calling    *)
(* the cache), EnvSpec (threads registering callbacks/templates and        *)
(* rendering on one Environment), ParseSpec (threads parsing), LookupSpec  *)
(* (function look-ups), and RenderSpec, OpSpec and CaseSpec (one Renderer  *)
(* walking a template).                                                    *)
(***************************************************************************)
EXTENDS Integers, Sequences, FiniteSets, TLC

VARIABLES
  \* ---- CallbackCache object and the steady clock it reads
  now,          \* Clock::now()
  config_,      \* CallbackCacheConfig {ttl, max_entries, cache_void_callbacks}
  should_cache_,  \* the cache predicate, Nullptr when none is set
  cache_map_,   \* keys of std::unordered_map<std::string, LruIterator>
  lru_list_,    \* std::list<CacheEntry>, front = index 1
  hits_, misses_, evictions_,
  \* ---- threads calling the cache directly (CacheSpec)
  cth,          \* per thread: position inside put / try_get and its locals
  cops,         \* number of cache calls started (bounds the counters)
  stored,       \* history: per key, the value, the clock reading and the
                \* rank among the puts of the put that stored the entry now
                \* held, or NoEntry
  \* ---- Environment (EnvSpec)
  fheap,               \* every FunctionStorage object allocated so far
  theap,               \* every TemplateStorage object allocated so far
  function_storage_,   \* the published FunctionStorage (index into fheap)
  template_storage_,   \* the published TemplateStorage (index into theap)
  write_mutex_,        \* the thread holding it, or NoThread
  render_config,
  tl_render_errors_,   \* per thread
  tl_parse_cache_,     \* per thread: templates discovered by the parse in progress
  eth,                 \* per thread: position in and locals of its Environment call
  eops,                \* Environment calls started
  registered,          \* history: the registrations that have returned
  cheap,               \* every CallbackCache object allocated so far
  callback_cache_,     \* the Environment's shared_ptr (index into cheap, 0 = null)
  \* ---- one thread's render through Environment::render and the Renderer
  renderer,            \* the Renderer of the render, with the stream it writes
  rpc,                 \* "idle", "rendering", "returned", "raised", "undefined"
  rtmpl,               \* the template given to render (index in Templates)
  rdata,               \* the data given to render
  config_snapshot,     \* the RenderConfig the Renderer was constructed with
  rnode,               \* the node of the root block visited next
  renders,             \* renders begun
  returned             \* the string render returned

cacheVars == <<now, config_, should_cache_, cache_map_, lru_list_, hits_, misses_, evictions_>>
cthreadVars == <<cth, cops, stored>>
envVars == <<fheap, theap, function_storage_, template_storage_, write_mutex_,
             render_config, tl_render_errors_, tl_parse_cache_, eth, eops, registered>>
renderVars == <<renderer, rpc, rtmpl, rdata, config_snapshot, rnode, renders, returned>>
\* the CallbackCache objects and their owner in the Environment
ownerVars == <<cheap, callback_cache_>>
vars == <<cacheVars, cthreadVars, envVars, renderVars, ownerVars>>
\* what the actions of one specification leave alone
notCache == <<envVars, renderVars, ownerVars>>
notEnv == <<cacheVars, cthreadVars, renderVars, ownerVars>>
\* what a render leaves alone: the storages and their writers, the cache's
\* configuration and its other users
notRender == <<cthreadVars, config_, should_cache_, fheap, theap, function_storage_, template_storage_,
               write_mutex_, render_config, tl_parse_cache_, eth, eops, registered,
               ownerVars>>

(***************************************************************************)
(* JSON values (nlohmann::json), tagged records.                           *)
(***************************************************************************)
JNull == [t |-> "null"]
JBool(b) == [t |-> "bool", b |-> b]
JInt(n) == [t |-> "int", n |-> n]
\* a number_float, kept as the fraction n/d
JFloat(n, d) == [t |-> "float", n |-> n, d |-> d]
JStr(s) == [t |-> "str", s |-> s]
JArr(a) == [t |-> "arr", a |-> a]
\* an object is a function from its keys (strings) to its members
JObj(o) == [t |-> "obj", o |-> o]
EmptyObject == JObj([k \in {} |-> JNull])
\* a null `const json*`
Nullptr == [t |-> "nullptr"]

\* every object key the model uses, in the order std::map iterates them
KeyOrder ==
  <<"_inplace", "a", "answer", "b", "bad", "good", "index", "index1", "is_first", "is_last",
    "k", "loop", "n", "name", "parent", "s", "size", "u", "users", "v", "xs", "ys">>
ObjectKeys(j) == SelectSeq(KeyOrder, LAMBDA k : k \in DOMAIN j.o)

\* array index tokens of a JSON pointer
IndexTokens == <<"0", "1", "2", "3">>
IsIndexToken(tok) == \E i \in 1..Len(IndexTokens) : IndexTokens[i] = tok
TokenIndex(tok) == CHOOSE i \in 1..Len(IndexTokens) : IndexTokens[i] = tok

RECURSIVE Dump(_)
RECURSIVE DumpSeq(_, _)
RECURSIVE DumpMembers(_, _, _)
\* number_float serialisation for the fractions the model produces
DumpFloat(n, d) ==
  IF d = 0 THEN "null"
  ELSE IF n % d = 0 THEN ToString(n \div d) \o ".0"
  ELSE IF (2 * n) % d = 0 THEN ToString(n \div d) \o ".5"
  ELSE ToString(n) \o "/" \o ToString(d)
\* json::dump(-1): compact serialisation
Dump(j) ==
  CASE j.t = "null" -> "null"
    [] j.t = "bool" -> IF j.b THEN "true" ELSE "false"
    [] j.t = "int"  -> ToString(j.n)
    [] j.t = "float" -> DumpFloat(j.n, j.d)
    [] j.t = "str"  -> "\"" \o j.s \o "\""
    [] j.t = "arr"  -> "[" \o DumpSeq(j.a, 1) \o "]"
    [] j.t = "obj"  -> "{" \o DumpMembers(j.o, ObjectKeys(j), 1) \o "}"
DumpSeq(a, i) ==
  IF i > Len(a) THEN ""
  ELSE (IF i > 1 THEN "," ELSE "") \o Dump(a[i]) \o DumpSeq(a, i + 1)
DumpMembers(o, keys, i) ==
  IF i > Len(keys) THEN ""
  ELSE (IF i > 1 THEN "," ELSE "") \o "\"" \o keys[i] \o "\":" \o Dump(o[keys[i]])
       \o DumpMembers(o, keys, i + 1)

IsNumber(j) == j.t \in {"int", "float"}
\* json::size()
Size(j) ==
  CASE j.t = "null" -> 0
    [] j.t = "arr" -> Len(j.a)
    [] j.t = "obj" -> Cardinality(DOMAIN j.o)
    [] OTHER -> 1
\* json::empty()
Empty(j) == Size(j) = 0
\* the elements begin()..end() iterates
Elements(j) ==
  CASE j.t = "arr" -> j.a
    [] j.t = "obj" -> [i \in 1..Len(ObjectKeys(j)) |-> j.o[ObjectKeys(j)[i]]]
    [] j.t = "null" -> <<>>
    [] OTHER -> <<j>>

RECURSIVE Contains(_, _)
\* json::contains(json_pointer)
Contains(j, ptr) ==
  IF ptr = <<>> THEN TRUE
  ELSE CASE j.t = "obj" -> Head(ptr) \in DOMAIN j.o /\ Contains(j.o[Head(ptr)], Tail(ptr))
         [] j.t = "arr" -> /\ IsIndexToken(Head(ptr))
                           /\ TokenIndex(Head(ptr)) <= Len(j.a)
                           /\ Contains(j.a[TokenIndex(Head(ptr))], Tail(ptr))
         [] OTHER -> FALSE

RECURSIVE PtrGet(_, _)
\* json::operator[](json_pointer) const, on a pointer the value contains
PtrGet(j, ptr) ==
  IF ptr = <<>> THEN j
  ELSE IF j.t = "obj" THEN PtrGet(j.o[Head(ptr)], Tail(ptr))
  ELSE PtrGet(j.a[TokenIndex(Head(ptr))], Tail(ptr))

\* json::operator[](key) = v on an object or null
SetKey(j, key, v) ==
  JObj([k \in (IF j.t = "obj" THEN DOMAIN j.o ELSE {}) \cup {key} |->
         IF k = key THEN v ELSE j.o[k]])

RECURSIVE PtrSettable(_, _)
\* json::operator[](json_pointer) succeeds: every value on the way is null,
\* an object, or an array indexed in range or one past its end
PtrSettable(j, ptr) ==
  IF ptr = <<>> THEN TRUE
  ELSE CASE j.t = "null" -> TRUE
         [] j.t = "obj" -> IF Head(ptr) \in DOMAIN j.o
                           THEN PtrSettable(j.o[Head(ptr)], Tail(ptr)) ELSE TRUE
         [] j.t = "arr" -> /\ IsIndexToken(Head(ptr))
                           /\ IF TokenIndex(Head(ptr)) <= Len(j.a)
                              THEN PtrSettable(j.a[TokenIndex(Head(ptr))], Tail(ptr))
                              ELSE TRUE
         [] OTHER -> FALSE

RECURSIVE PtrSet(_, _, _)
RECURSIVE PadNull(_, _)
PadNull(a, n) == IF Len(a) >= n THEN a ELSE PadNull(Append(a, JNull), n)
\* json::operator[](json_pointer) = v: null members become objects (arrays
\* for an index token) on the way
PtrSet(j, ptr, v) ==
  IF ptr = <<>> THEN v
  ELSE CASE j.t = "obj" ->
              SetKey(j, Head(ptr),
                     PtrSet(IF Head(ptr) \in DOMAIN j.o THEN j.o[Head(ptr)] ELSE JNull,
                            Tail(ptr), v))
         [] j.t = "arr" ->
              LET i == TokenIndex(Head(ptr))
                  a == PadNull(j.a, i)
              IN JArr([a EXCEPT ![i] = PtrSet(a[i], Tail(ptr), v)])
         [] OTHER ->
              IF IsIndexToken(Head(ptr))
              THEN LET i == TokenIndex(Head(ptr))
                       a == PadNull(<<>>, i)
                   IN JArr([a EXCEPT ![i] = PtrSet(JNull, Tail(ptr), v)])
              ELSE SetKey(JNull, Head(ptr), PtrSet(JNull, Tail(ptr), v))

StartsWith(s, prefix) ==
  Len(s) >= Len(prefix) /\ SubSeq(s, 1, Len(prefix)) = prefix

(***************************************************************************)
(* CallbackCache                                                           *)
(***************************************************************************)
RECURSIVE make_cache_key_args(_, _)
make_cache_key_args(args, i) ==
  IF i > Len(args) THEN ""
  ELSE (IF i > 1 THEN "," ELSE "")
       \o (IF args[i] # Nullptr THEN Dump(args[i]) ELSE "null")
       \o make_cache_key_args(args, i + 1)

\* "function_name:arg1_json,arg2_json,..."
make_cache_key(function_name, args) ==
  function_name \o ":" \o make_cache_key_args(args, 1)

\* The cache as one value: what the member functions read and write.
CacheOf(m, l, h, ms, ev) ==
  [map |-> m, lru |-> l, hits |-> h, misses |-> ms, evictions |-> ev]

Back(l) == l[Len(l)]
PopBack(l) == SubSeq(l, 1, Len(l) - 1)

RECURSIVE remove_expired_entries_locked(_, _)
remove_expired_entries_locked(c, tnow) ==
  IF c.lru # <<>> /\ Back(c.lru).expiry <= tnow
  THEN remove_expired_entries_locked(
         [c EXCEPT !.map = @ \ {Back(c.lru).key},
                   !.lru = PopBack(@),
                   !.evictions = @ + 1], tnow)
  ELSE c

RECURSIVE EvictLoop(_, _)
EvictLoop(c, cfg) ==
  IF Cardinality(c.map) >= cfg.max_entries /\ c.lru # <<>>
  THEN EvictLoop([c EXCEPT !.map = @ \ {Back(c.lru).key},
                           !.lru = PopBack(@),
                           !.evictions = @ + 1], cfg)
  ELSE c
\* off-by-one variant: evicts only when already over capacity
evict_if_needed_locked_gt(c, cfg) ==
  IF cfg.max_entries = 0 \/ Cardinality(c.map) <= cfg.max_entries
  THEN c ELSE EvictLoop(c, cfg)

evict_if_needed_locked(c, cfg) ==
  IF cfg.max_entries = 0 THEN c ELSE EvictLoop(c, cfg)

IndexOfKey(l, key) == CHOOSE i \in 1..Len(l) : l[i].key = key
RemoveAt(l, i) == SubSeq(l, 1, i - 1) \o SubSeq(l, i + 1, Len(l))

\* put, lines 213-232: the section under the unique_lock.  `expiry` was
\* computed before the lock was taken; `tnow` is the clock read inside
\* remove_expired_entries_locked.
put_locked(c, cfg, key, value, expiry, tnow) ==
  LET c1 == remove_expired_entries_locked(c, tnow) IN
  IF key \in c1.map
  THEN LET i == IndexOfKey(c1.lru, key) IN
       [c1 EXCEPT !.lru = <<[value |-> value, expiry |-> expiry, key |-> key]>>
                          \o RemoveAt(c1.lru, i)]
  ELSE LET c2 == evict_if_needed_locked(c1, cfg) IN
       [c2 EXCEPT !.lru = <<[value |-> value, expiry |-> expiry, key |-> key]>> \o @,
                  !.map = @ \cup {key}]

\* a put that drops no value
put_skips_nothing(cfg, value) == FALSE

\* put, lines 205-208: whether the value is dropped before anything else
put_skips(cfg, value) == ~cfg.cache_void_callbacks /\ value = JNull

\* a lookup that also accepts an entry exactly at its expiry
try_get_locked_ge(c, key, tnow) ==
  IF key \in c.map /\ c.lru[IndexOfKey(c.lru, key)].expiry >= tnow
  THEN [c |-> [c EXCEPT !.hits = @ + 1], found |-> TRUE,
        value |-> c.lru[IndexOfKey(c.lru, key)].value]
  ELSE [c |-> [c EXCEPT !.misses = @ + 1], found |-> FALSE, value |-> JNull]

\* a lookup that moves the entry it hits to the front of the list
try_get_locked_touch(c, key, tnow) ==
  IF key \in c.map /\ c.lru[IndexOfKey(c.lru, key)].expiry > tnow
  THEN [c |-> [c EXCEPT !.hits = @ + 1,
                        !.lru = <<c.lru[IndexOfKey(c.lru, key)]>>
                                  \o RemoveAt(c.lru, IndexOfKey(c.lru, key))],
        found |-> TRUE, value |-> c.lru[IndexOfKey(c.lru, key)].value]
  ELSE [c |-> [c EXCEPT !.misses = @ + 1], found |-> FALSE, value |-> JNull]

\* try_get, lines 182-194.  `tnow` was read before the shared lock was taken.
try_get_locked(c, key, tnow) ==
  IF key \in c.map /\ c.lru[IndexOfKey(c.lru, key)].expiry > tnow
  THEN [c |-> [c EXCEPT !.hits = @ + 1], found |-> TRUE,
        value |-> c.lru[IndexOfKey(c.lru, key)].value]
  ELSE [c |-> [c EXCEPT !.misses = @ + 1], found |-> FALSE, value |-> JNull]

clear(c) == [c EXCEPT !.map = {}, !.lru = <<>>]

RECURSIVE InvalidateFrom(_, _, _)
InvalidateFrom(c, prefix, i) ==
  IF i > Len(c.lru) THEN [c |-> c, removed |-> 0]
  ELSE IF StartsWith(c.lru[i].key, prefix)
       THEN LET r == InvalidateFrom([c EXCEPT !.map = @ \ {c.lru[i].key},
                                              !.lru = RemoveAt(@, i)], prefix, i)
            IN [r EXCEPT !.removed = @ + 1]
       ELSE InvalidateFrom(c, prefix, i + 1)
\* an invalidate that matches the name without the colon that ends it
invalidate_by_name(c, function_name) == InvalidateFrom(c, function_name, 1)
invalidate(c, function_name) == InvalidateFrom(c, function_name \o ":", 1)

(***************************************************************************)
(* CacheSpec: threads calling put / try_get / invalidate / clear           *)
(***************************************************************************)
MaxTime == 2          \* the clock runs 0..MaxTime
MaxCacheOps == 3      \* cache calls started in one behaviour
CacheThreads == {"t1", "t2"}

\* (function name, arguments) pairs the threads call with: one function
\* with two argument lists, and a function whose name begins with the
\* other's
CacheNames == {"f", "ff"}
CacheCalls ==
  << <<"f", <<JInt(1)>> >>,
     <<"f", <<JInt(2)>> >>,
     <<"ff", <<JInt(1)>> >> >>
CacheValues == <<JInt(7), JInt(8), JNull>>
CacheKeys == { make_cache_key(CacheCalls[i][1], CacheCalls[i][2]) : i \in 1..Len(CacheCalls) }
\* the function a key belongs to
KeyFunction(key) ==
  LET i == CHOOSE i \in 1..Len(CacheCalls) :
             make_cache_key(CacheCalls[i][1], CacheCalls[i][2]) = key
  IN CacheCalls[i][1]

NoEntry == [val |-> Nullptr, at |-> -1, seq |-> 0]
\* the rank of the next put: later than every put whose entry is held
RECURSIVE LatestPut(_, _)
LatestPut(st, keys) ==
  IF keys = {} THEN 0
  ELSE LET k == CHOOSE k \in keys : TRUE
           rest == LatestPut(st, keys \ {k})
       IN IF st[k].seq > rest THEN st[k].seq ELSE rest
IdleThread == [pc |-> "idle", key |-> "", value |-> JNull, time |-> 0,
               found |-> FALSE, result |-> JNull]

CacheNow == CacheOf(cache_map_, lru_list_, hits_, misses_, evictions_)
SetCache(c) ==
  /\ cache_map_' = c.map
  /\ lru_list_' = c.lru
  /\ hits_' = c.hits
  /\ misses_' = c.misses
  /\ evictions_' = c.evictions

DefaultCacheConfig == [ttl |-> 1, max_entries |-> 2, cache_void_callbacks |-> FALSE]
CacheConfigs ==
  { [ttl |-> tt, max_entries |-> me, cache_void_callbacks |-> cv] :
      tt \in {1}, me \in {0, 1, 2}, cv \in BOOLEAN }

CacheObjectInit ==
  /\ now = 0
  /\ config_ \in CacheConfigs
  /\ cache_map_ = {}
  /\ lru_list_ = <<>>
  /\ hits_ = 0 /\ misses_ = 0 /\ evictions_ = 0
  /\ cth = [t \in CacheThreads |-> IdleThread]
  /\ cops = 0
  /\ stored = [k \in CacheKeys |-> NoEntry]

Tick ==
  /\ now < MaxTime
  /\ now' = now + 1
  /\ UNCHANGED <<config_, should_cache_, cache_map_, lru_list_, hits_, misses_, evictions_,
                 cthreadVars>>
  /\ UNCHANGED notCache

\* put, lines 205-211: null check, key and expiry, before the lock; max
\* bounds the calls of the behaviour
PutBeginUpTo(t, i, v, max) ==
  /\ cth[t].pc = "idle"
  /\ cops < max
  /\ cops' = cops + 1
  /\ IF put_skips(config_, CacheValues[v])
     THEN cth' = cth
     ELSE cth' = [cth EXCEPT ![t] =
            [@ EXCEPT !.pc = "put",
                      !.key = make_cache_key(CacheCalls[i][1], CacheCalls[i][2]),
                      !.value = CacheValues[v],
                      !.time = now]]
  /\ UNCHANGED <<cacheVars, stored>>
  /\ UNCHANGED notCache

\* put, lines 213-233
PutLocked(t) ==
  /\ cth[t].pc = "put"
  /\ LET c == put_locked(CacheNow, config_, cth[t].key, cth[t].value,
                         cth[t].time + config_.ttl, now)
     IN /\ SetCache(c)
        /\ stored' = [k \in CacheKeys |->
                        IF k = cth[t].key
                        THEN [val |-> cth[t].value, at |-> cth[t].time,
                              seq |-> LatestPut(stored, CacheKeys) + 1]
                        ELSE IF k \in cache_map_ /\ k \notin c.map
                             THEN NoEntry ELSE stored[k]]
  /\ cth' = [cth EXCEPT ![t] = IdleThread]
  /\ UNCHANGED <<now, config_, should_cache_, cops>>
  /\ UNCHANGED notCache

\* try_get, lines 178-179; max bounds the calls of the behaviour
GetBeginUpTo(t, i, max) ==
  /\ cth[t].pc = "idle"
  /\ cops < max
  /\ cops' = cops + 1
  /\ cth' = [cth EXCEPT ![t] =
       [@ EXCEPT !.pc = "get",
                 !.key = make_cache_key(CacheCalls[i][1], CacheCalls[i][2]),
                 !.time = now]]
  /\ UNCHANGED <<cacheVars, stored>>
  /\ UNCHANGED notCache

\* try_get, lines 182-195
GetLocked(t) ==
  /\ cth[t].pc = "get"
  /\ LET r == try_get_locked(CacheNow, cth[t].key, cth[t].time)
     IN /\ SetCache(r.c)
        /\ cth' = [cth EXCEPT ![t] =
             [@ EXCEPT !.pc = "got", !.found = r.found, !.result = r.value]]
  /\ UNCHANGED <<now, config_, should_cache_, cops, stored>>
  /\ UNCHANGED notCache

\* the caller has consumed the result of try_get / invalidate
Return(t) ==
  /\ cth[t].pc \in {"got", "invalidated"}
  /\ cth' = [cth EXCEPT ![t] = IdleThread]
  /\ UNCHANGED <<cacheVars, cops, stored>>
  /\ UNCHANGED notCache

Invalidate(t, name) ==
  /\ cth[t].pc = "idle"
  /\ cops < MaxCacheOps
  /\ cops' = cops + 1
  /\ LET r == invalidate(CacheNow, name)
     IN /\ SetCache(r.c)
        /\ cth' = [cth EXCEPT ![t] =
             [@ EXCEPT !.pc = "invalidated", !.key = name, !.time = r.removed]]
  /\ stored' = [k \in CacheKeys |->
                  IF KeyFunction(k) = name THEN NoEntry ELSE stored[k]]
  /\ UNCHANGED <<now, config_, should_cache_>>
  /\ UNCHANGED notCache

Clear(t) ==
  /\ cth[t].pc = "idle"
  /\ cops < MaxCacheOps
  /\ cops' = cops + 1
  /\ SetCache(clear(CacheNow))
  /\ stored' = [k \in CacheKeys |-> NoEntry]
  /\ UNCHANGED <<now, config_, should_cache_, cth>>
  /\ UNCHANGED notCache

\* puts of one value and look-ups only
MaxLruOps == 4
LruNext ==
  \/ Tick
  \/ \E t \in CacheThreads, i \in 1..Len(CacheCalls) : PutBeginUpTo(t, i, 1, MaxLruOps)
  \/ \E t \in CacheThreads : PutLocked(t)
  \/ \E t \in CacheThreads, i \in 1..Len(CacheCalls) : GetBeginUpTo(t, i, MaxLruOps)
  \/ \E t \in CacheThreads : GetLocked(t)
  \/ \E t \in CacheThreads : Return(t)

CacheNext ==
  \/ Tick
  \/ \E t \in CacheThreads, i \in 1..Len(CacheCalls), v \in 1..Len(CacheValues) :
       PutBeginUpTo(t, i, v, MaxCacheOps)
  \/ \E t \in CacheThreads : PutLocked(t)
  \/ \E t \in CacheThreads, i \in 1..Len(CacheCalls) : GetBeginUpTo(t, i, MaxCacheOps)
  \/ \E t \in CacheThreads : GetLocked(t)
  \/ \E t \in CacheThreads : Return(t)
  \/ \E t \in CacheThreads, name \in CacheNames : Invalidate(t, name)
  \/ \E t \in CacheThreads : Clear(t)

\* ---------------------------------------------------------------------------
\* FunctionStorage (function_storage.hpp) and TemplateStorage
\* ---------------------------------------------------------------------------

VARIADIC == -1

FunctionData(op, cb, inplace_cb) ==
  [operation |-> op, callback |-> cb, inplace_callback |-> inplace_cb]
NoCallback == "none"

\* the table of lines 103-135
Builtins ==
  << <<"at", 2, "At">>, <<"capitalize", 1, "Capitalize">>, <<"default", 2, "Default">>,
     <<"divisibleBy", 2, "DivisibleBy">>, <<"even", 1, "Even">>, <<"exists", 1, "Exists">>,
     <<"existsIn", 2, "ExistsInObject">>, <<"first", 1, "First">>, <<"float", 1, "Float">>,
     <<"int", 1, "Int">>, <<"isArray", 1, "IsArray">>, <<"isBoolean", 1, "IsBoolean">>,
     <<"isFloat", 1, "IsFloat">>, <<"isInteger", 1, "IsInteger">>, <<"isNumber", 1, "IsNumber">>,
     <<"isObject", 1, "IsObject">>, <<"isString", 1, "IsString">>, <<"last", 1, "Last">>,
     <<"length", 1, "Length">>, <<"lower", 1, "Lower">>, <<"max", 1, "Max">>,
     <<"min", 1, "Min">>, <<"odd", 1, "Odd">>, <<"range", 1, "Range">>,
     <<"replace", 3, "Replace">>, <<"round", 2, "Round">>, <<"sort", 1, "Sort">>,
     <<"upper", 1, "Upper">>, <<"super", 0, "Super">>, <<"super", 1, "Super">>,
     <<"join", 2, "Join">> >>

BuiltinStorage ==
  [k \in { <<Builtins[i][1], Builtins[i][2]>> : i \in 1..Len(Builtins) } |->
     LET i == CHOOSE i \in 1..Len(Builtins) : <<Builtins[i][1], Builtins[i][2]>> = k
     IN FunctionData(Builtins[i][3], NoCallback, NoCallback)]

\* an insertion that replaces the entry of an existing key
EmplaceOrAssign(storage, key, data) ==
  [k \in DOMAIN storage \cup {key} |-> IF k = key THEN data ELSE storage[k]]

\* std::map::emplace: an existing key keeps its entry
Emplace(storage, key, data) ==
  IF key \in DOMAIN storage THEN storage ELSE (key :> data) @@ storage

\* operator[] assignment: an existing key is overwritten
Assign(storage, key, data) == (key :> data) @@ storage

\* FunctionStorage::add_callback, both overloads
storage_add_callback(storage, name, num_args, cb, inplace_cb) ==
  Emplace(storage, <<name, num_args>>, FunctionData("Callback", cb, inplace_cb))

\* a lookup that falls back to the variadic entry at every arity
find_function_any_arity(storage, name, num_args) ==
  IF <<name, num_args>> \in DOMAIN storage THEN storage[<<name, num_args>>]
  ELSE IF <<name, VARIADIC>> \in DOMAIN storage
       THEN storage[<<name, VARIADIC>>]
       ELSE FunctionData("None", NoCallback, NoCallback)

\* FunctionStorage::find_function, function_storage.hpp 166-180
find_function(storage, name, num_args) ==
  IF <<name, num_args>> \in DOMAIN storage THEN storage[<<name, num_args>>]
  ELSE IF num_args > 0 /\ <<name, VARIADIC>> \in DOMAIN storage
       THEN storage[<<name, VARIADIC>>]
       ELSE FunctionData("None", NoCallback, NoCallback)

\* Environment::add_void_callback, environment.hpp 648-661: the callback is
\* wrapped in a lambda that returns json()
add_void_callback(storage, name, num_args, cb) ==
  storage_add_callback(storage, name, num_args, cb, NoCallback)

\* the functions register_array_functions installs at construction
ArrayFunctionStorage ==
  storage_add_callback(BuiltinStorage, "append", 2, "append", "append_inplace")

\* ---------------------------------------------------------------------------
\* Environment (environment.hpp): copy-on-write storages, write_mutex_,
\* render_to.  A storage object is an element of a heap that only grows; the
\* atomic shared_ptr members hold an index into it.
\* ---------------------------------------------------------------------------

\* the swap of lines 619 and 677 performed in place on the published object
PublishInPlace(heap, current, new_storage) ==
  [heap |-> [heap EXCEPT ![current] = new_storage], current |-> current]

\* make_shared + store: a fresh object becomes the published one
Publish(heap, current, new_storage) ==
  [heap |-> Append(heap, new_storage), current |-> Len(heap) + 1]

EnvThreads == {"e1", "e2"}
MaxEnvOps == 3          \* Environment calls started in one behaviour
MaxRenderSteps == 2     \* storage look-ups of one render
NoThread == "none"

CallbackNames == {"f", "g"}
CallbackArities == {0, VARIADIC}
CallbackIds == {"cb1", "cb2"}
TemplateNames == {"inc"}
TemplateIds == {"T1", "T2"}

\* a CallbackCache object: whether it has been destroyed, and the number of
\* shared_ptr owners it has outside the Environment
OwnedCache(external) == [alive |-> TRUE, external |-> external]

IdleEnvThread ==
  [pc |-> "idle", tmpl_storage |-> 0, func_storage |-> 0,
   config_snapshot |-> [graceful_errors |-> FALSE],
   out |-> <<>>, render_errors |-> <<>>, steps |-> 0,
   funcs_at_entry |-> <<>>, tmpls_at_entry |-> <<>>,
   op |-> <<>>, new_storage |-> <<>>, parse |-> <<>>]

EnvObjectInit ==
  /\ fheap = <<ArrayFunctionStorage>>
  /\ theap = << <<>> >>
  /\ function_storage_ = 1
  /\ template_storage_ = 1
  /\ write_mutex_ = NoThread
  /\ render_config = [graceful_errors |-> FALSE]
  /\ tl_render_errors_ = [t \in EnvThreads |-> <<>>]
  /\ tl_parse_cache_ = [t \in EnvThreads |-> <<>>]
  /\ eth = [t \in EnvThreads |-> IdleEnvThread]
  /\ eops = 0
  /\ registered = {}
  /\ cheap = <<>> /\ callback_cache_ = 0

EnvSet(t, rec) == eth' = [eth EXCEPT ![t] = rec]

\* render_to lines 537-540: clear the thread's errors, load the template storage
RenderBegin(t) ==
  /\ eth[t].pc = "idle"
  /\ eops < MaxEnvOps
  /\ eops' = eops + 1
  /\ tl_render_errors_' = [tl_render_errors_ EXCEPT ![t] = <<>>]
  /\ EnvSet(t, [IdleEnvThread EXCEPT !.pc = "load_func",
                                     !.tmpl_storage = template_storage_,
                                     !.tmpls_at_entry = theap[template_storage_]])
  /\ UNCHANGED <<fheap, theap, function_storage_, template_storage_, write_mutex_,
                 render_config, tl_parse_cache_, registered>>
  /\ UNCHANGED notEnv

\* render_to line 541: load the function storage
RenderLoadFunctions(t) ==
  /\ eth[t].pc = "load_func"
  /\ EnvSet(t, [eth[t] EXCEPT !.pc = "snapshot_config",
                              !.func_storage = function_storage_,
                              !.funcs_at_entry = fheap[function_storage_]])
  /\ UNCHANGED <<fheap, theap, function_storage_, template_storage_, write_mutex_,
                 render_config, tl_render_errors_, tl_parse_cache_, eops, registered>>
  /\ UNCHANGED notEnv

\* a copy of render_config made without taking write_mutex_
RenderSnapshotConfigUnlocked(t) ==
  /\ eth[t].pc = "snapshot_config"
  /\ EnvSet(t, [eth[t] EXCEPT !.pc = "rendering", !.config_snapshot = render_config])
  /\ UNCHANGED <<fheap, theap, function_storage_, template_storage_, write_mutex_,
                 render_config, tl_render_errors_, tl_parse_cache_, eops, registered>>
  /\ UNCHANGED notEnv

\* render_to lines 545-549: copy render_config while holding write_mutex_
RenderSnapshotConfig(t) ==
  /\ eth[t].pc = "snapshot_config"
  /\ write_mutex_ = NoThread
  /\ EnvSet(t, [eth[t] EXCEPT !.pc = "rendering", !.config_snapshot = render_config])
  /\ UNCHANGED <<fheap, theap, function_storage_, template_storage_, write_mutex_,
                 render_config, tl_render_errors_, tl_parse_cache_, eops, registered>>
  /\ UNCHANGED notEnv

\* throw_renderer_error as the render sees it: recorded in graceful mode,
\* otherwise the render leaves render_to by exception
RenderFails(t, message) ==
  IF eth[t].config_snapshot.graceful_errors
  THEN [eth[t] EXCEPT !.render_errors = Append(@, message), !.steps = @ + 1]
  ELSE IdleEnvThread

\* the renderer resolving a zero-argument callback in its function storage
\* (renderer.hpp 313-316) and calling it
RenderCall(t, name) ==
  /\ eth[t].pc = "rendering"
  /\ eth[t].steps < MaxRenderSteps
  /\ LET function_data == find_function(fheap[eth[t].func_storage], name, 0)
     IN IF function_data.operation = "Callback"
        THEN EnvSet(t, [eth[t] EXCEPT !.out = Append(@, <<"call", name, function_data.callback>>),
                                      !.steps = @ + 1])
        ELSE EnvSet(t, RenderFails(t, <<"variable not found", name>>))
  /\ UNCHANGED <<fheap, theap, function_storage_, template_storage_, write_mutex_,
                 render_config, tl_render_errors_, tl_parse_cache_, eops, registered>>
  /\ UNCHANGED notEnv

\* the renderer resolving an include / extends in its template storage
\* (renderer.hpp 914-921, 927-934)
RenderInclude(t, name) ==
  /\ eth[t].pc = "rendering"
  /\ eth[t].steps < MaxRenderSteps
  /\ LET template_storage == theap[eth[t].tmpl_storage]
     IN IF name \in DOMAIN template_storage
        THEN EnvSet(t, [eth[t] EXCEPT !.out = Append(@, <<"include", name, template_storage[name]>>),
                                      !.steps = @ + 1])
        ELSE EnvSet(t, RenderFails(t, <<"include not found", name>>))
  /\ UNCHANGED <<fheap, theap, function_storage_, template_storage_, write_mutex_,
                 render_config, tl_render_errors_, tl_parse_cache_, eops, registered>>
  /\ UNCHANGED notEnv

\* render_to lines 555-558: publish the renderer's errors to the thread
RenderFinish(t) ==
  /\ eth[t].pc = "rendering"
  /\ tl_render_errors_' = [tl_render_errors_ EXCEPT ![t] = eth[t].render_errors]
  /\ EnvSet(t, [IdleEnvThread EXCEPT !.pc = "rendered", !.out = eth[t].out,
                  !.funcs_at_entry = eth[t].funcs_at_entry,
                  !.tmpls_at_entry = eth[t].tmpls_at_entry])
  /\ UNCHANGED <<fheap, theap, function_storage_, template_storage_, write_mutex_,
                 render_config, tl_parse_cache_, eops, registered>>
  /\ UNCHANGED notEnv

\* the caller has read the output
RenderReturn(t) ==
  /\ eth[t].pc = "rendered"
  /\ EnvSet(t, IdleEnvThread)
  /\ UNCHANGED <<fheap, theap, function_storage_, template_storage_, write_mutex_,
                 render_config, tl_render_errors_, tl_parse_cache_, eops, registered>>
  /\ UNCHANGED notEnv

\* whether a writer works on the template storage
OnTemplates(op) == op[1] \in {"include_template", "merge_parse_cache"}

\* the storage published when the program started
LoadInitial(op) == IF OnTemplates(op) THEN theap[1] ELSE fheap[1]

\* `auto current = storage_.load(std::memory_order_acquire)` inside the
\* critical section, lines 81, 614, 637, 652, 672
LoadCurrent(op) ==
  IF OnTemplates(op) THEN theap[template_storage_] ELSE fheap[function_storage_]

\* try_emplace of every template of the cache, lines 87-89
MergeInto(storage, cache) ==
  [n \in DOMAIN storage \cup DOMAIN cache |->
     IF n \in DOMAIN storage THEN storage[n] ELSE cache[n]]

\* the copy of `current` with the writer's entry added, lines 82-89, 615-616,
\* 638-639, 653-657, 673-674
ApplyOp(op, current) ==
  CASE op[1] = "add_callback" -> storage_add_callback(current, op[2], op[3], op[4], NoCallback)
    [] op[1] = "add_void_callback" ->
         storage_add_callback(current, op[2], op[3], <<"void", op[4]>>, NoCallback)
    [] op[1] = "include_template" -> Assign(current, op[2], op[3])
    [] op[1] = "merge_parse_cache" -> MergeInto(current, op[2])

\* add_callback / add_void_callback / include_template, first line:
\* std::lock_guard lock(write_mutex_)
WriterLock(t, op) ==
  /\ eth[t].pc = "idle"
  /\ eops < MaxEnvOps
  /\ eops' = eops + 1
  /\ write_mutex_ = NoThread
  /\ write_mutex_' = t
  /\ EnvSet(t, [IdleEnvThread EXCEPT !.pc = "copy", !.op = op])
  /\ UNCHANGED <<fheap, theap, function_storage_, template_storage_,
                 render_config, tl_render_errors_, tl_parse_cache_, registered>>
  /\ UNCHANGED notEnv

\* load the current storage, copy it, add the entry to the copy
\* (lines 614-616, 637-639, 652-657, 672-674)
WriterCopy(t) ==
  /\ eth[t].pc = "copy"
  /\ EnvSet(t, [eth[t] EXCEPT !.pc = "store",
                              !.new_storage = ApplyOp(eth[t].op, LoadCurrent(eth[t].op))])
  /\ UNCHANGED <<fheap, theap, function_storage_, template_storage_, write_mutex_,
                 render_config, tl_render_errors_, tl_parse_cache_, eops, registered>>
  /\ UNCHANGED notEnv

\* store the new storage and leave the function, releasing write_mutex_
\* (lines 619-620, 642-643, 660-661, 677-678)
WriterStore(t) ==
  /\ eth[t].pc = "store"
  /\ IF OnTemplates(eth[t].op)
     THEN LET p == Publish(theap, template_storage_, eth[t].new_storage)
          IN /\ theap' = p.heap
             /\ template_storage_' = p.current
             /\ UNCHANGED <<fheap, function_storage_>>
     ELSE LET p == Publish(fheap, function_storage_, eth[t].new_storage)
          IN /\ fheap' = p.heap
             /\ function_storage_' = p.current
             /\ UNCHANGED <<theap, template_storage_>>
  /\ write_mutex_' = NoThread
  /\ registered' = registered \cup {eth[t].op}
  /\ EnvSet(t, IdleEnvThread)
  /\ UNCHANGED <<render_config, tl_render_errors_, tl_parse_cache_, eops>>
  /\ UNCHANGED notEnv

\* set_graceful_errors, lines 569-573, one critical section
SetGracefulErrors(t, graceful) ==
  /\ eth[t].pc = "idle"
  /\ eops < MaxEnvOps
  /\ eops' = eops + 1
  /\ write_mutex_ = NoThread
  /\ render_config' = [render_config EXCEPT !.graceful_errors = graceful]
  /\ UNCHANGED <<fheap, theap, function_storage_, template_storage_, write_mutex_,
                 tl_render_errors_, tl_parse_cache_, eth, registered>>
  /\ UNCHANGED notEnv

\* ---------------------------------------------------------------------------
\* the owner of the callback cache and the wrapper of render_config
\* ---------------------------------------------------------------------------
MaxCaches == 2          \* CallbackCache objects allocated in one behaviour

\* a shared_ptr gave its object up: an object no shared_ptr owns any longer
\* is destroyed; `current` is the object callback_cache_ owns now
Reclaim(heap, current) ==
  [i \in DOMAIN heap |->
     IF heap[i].external = 0 /\ current # i THEN [heap[i] EXCEPT !.alive = FALSE]
     ELSE heap[i]]
\* make_caching_wrapper, callback_cache.hpp 286-309: the lambda captures
\* `this`, the address of the cache, and nothing that owns it
make_caching_wrapper(this) == this

\* a critical section of the Environment that sets callback_cache_ to
\* `cache` and the wrapper to `wrapper`, on the heap `heap`
SetOwner(t, heap, cache, wrapper) ==
  /\ eth[t].pc = "idle"
  /\ eops < MaxEnvOps
  /\ eops' = eops + 1
  /\ write_mutex_ = NoThread
  /\ callback_cache_' = cache
  /\ cheap' = Reclaim(heap, cache)
  /\ render_config' = [render_config EXCEPT !.callback_wrapper = wrapper]
  /\ UNCHANGED <<fheap, theap, function_storage_, template_storage_, write_mutex_,
                 tl_render_errors_, tl_parse_cache_, eth, registered>>
  /\ UNCHANGED <<cacheVars, cthreadVars, renderVars>>

\* enable_callback_cache(config), environment.hpp 299-303
enable_callback_cache(t) ==
  /\ Len(cheap) < MaxCaches
  /\ SetOwner(t, Append(cheap, OwnedCache(0)), Len(cheap) + 1,
              make_caching_wrapper(Len(cheap) + 1))

\* disable_callback_cache, environment.hpp 406-410
disable_callback_cache(t) ==
  /\ eth[t].pc = "idle"
  /\ SetOwner(t, cheap, 0, 0)

\* set_callback_cache(cache), environment.hpp 382-393, with a shared_ptr the
\* caller holds, or a null one
set_callback_cache(t, cache) ==
  /\ cache # 0 => (cache \in DOMAIN cheap /\ cheap[cache].external > 0)
  /\ SetOwner(t, cheap, cache, IF cache # 0 THEN make_caching_wrapper(cache) ELSE 0)

\* std::make_shared<CallbackCache>(config) by the program, which keeps the
\* pointer to give it to set_callback_cache
MakeShared(t) ==
  /\ eth[t].pc = "idle"
  /\ Len(cheap) < MaxCaches
  /\ cheap' = Append(cheap, OwnedCache(1))
  /\ UNCHANGED <<callback_cache_, envVars, cacheVars, cthreadVars, renderVars>>

\* the program's shared_ptr to a cache goes out of scope
ReleaseShared(c) ==
  /\ c \in DOMAIN cheap /\ cheap[c].external > 0
  /\ cheap' = Reclaim([cheap EXCEPT ![c].external = @ - 1], callback_cache_)
  /\ UNCHANGED <<callback_cache_, envVars, cacheVars, cthreadVars, renderVars>>

\* the renderer calls a callback through the wrapper of its configuration
\* (renderer.hpp 318-320, 777-780): the lambda's body runs on the cache its
\* `this` points to; on a destroyed cache the behaviour is undefined
WrapperCall(t) ==
  /\ eth[t].pc = "rendering"
  /\ eth[t].steps < MaxRenderSteps
  /\ eth[t].config_snapshot.callback_wrapper # 0
  /\ LET this == eth[t].config_snapshot.callback_wrapper
     IN IF cheap[this].alive
        THEN EnvSet(t, [eth[t] EXCEPT !.out = Append(@, <<"wrapped", this>>), !.steps = @ + 1])
        ELSE EnvSet(t, [eth[t] EXCEPT !.pc = "undefined"])
  /\ UNCHANGED <<fheap, theap, function_storage_, template_storage_, write_mutex_,
                 render_config, tl_render_errors_, tl_parse_cache_, eops, registered>>
  /\ UNCHANGED notEnv

\* one render of each thread through the wrapper while the cache is
\* enabled, disabled and set
WrapperNext ==
  \/ \E t \in EnvThreads : RenderBegin(t)
  \/ \E t \in EnvThreads : RenderLoadFunctions(t)
  \/ \E t \in EnvThreads : RenderSnapshotConfig(t)
  \/ \E t \in EnvThreads : WrapperCall(t)
  \/ \E t \in EnvThreads : RenderFinish(t)
  \/ \E t \in EnvThreads : enable_callback_cache(t)
  \/ \E t \in EnvThreads : disable_callback_cache(t)
  \/ \E t \in EnvThreads, c \in 0..MaxCaches : set_callback_cache(t, c)
  \/ \E t \in EnvThreads : MakeShared(t)
  \/ \E c \in 1..MaxCaches : ReleaseShared(c)

\* ---------------------------------------------------------------------------
\* parse (environment.hpp 445-465) with the thread's parse cache.  The text
\* given to parse is written as the names its include statements refer to,
\* in order, and whether a syntax error follows them.
\* ---------------------------------------------------------------------------
ParseSource(includes, error) == [includes |-> includes, error |-> error]
ParseSources ==
  { ParseSource(inc, e) : inc \in {<<"a", "b">>, <<"b">>}, e \in BOOLEAN }
\* the names that are files under the input path; their text has no
\* include statement and no error
Files == {"a"}
\* what the include callback of the environment gives to parse for a name
\* that is no file: `return env.parse(...)`
CallbackSource == ParseSource(<<>>, FALSE)
\* the template a parse of thread t makes for a name
ParsedTemplate(t, name) == "parsed:" \o t \o ":" \o name

\* lines 448-453: the snapshots the Parser is constructed with, and the
\* statements it has still to read
ParseFrame(src) ==
  [todo |-> src.includes, error |-> src.error,
   tmpl_storage |-> template_storage_, func_storage |-> function_storage_]

ParseTop(t) == eth[t].parse[Len(eth[t].parse)]
SetParseTop(t, frame) ==
  EnvSet(t, [eth[t] EXCEPT !.parse[Len(eth[t].parse)] = frame])
\* the parser has read the include statement at the head of todo
NextStatement(frame) == [frame EXCEPT !.todo = Tail(@)]
\* template_storage.emplace(name, tmpl) on the thread's cache
CacheEmplace(t, name, tmpl) ==
  tl_parse_cache_' = [tl_parse_cache_ EXCEPT ![t] = Emplace(@, name, tmpl)]

\* parse, lines 448-453
ParseBegin(t, src) ==
  /\ eth[t].pc = "idle"
  /\ eops < MaxEnvOps
  /\ eops' = eops + 1
  /\ EnvSet(t, [IdleEnvThread EXCEPT !.pc = "parsing",
                                     !.tmpls_at_entry = theap[template_storage_],
                                     !.parse = <<ParseFrame(src)>>])
  /\ UNCHANGED <<fheap, theap, function_storage_, template_storage_, write_mutex_,
                 render_config, tl_render_errors_, tl_parse_cache_, registered>>
  /\ UNCHANGED notEnv

\* the parser reads an include statement: a name it finds in the cache or in
\* its snapshot of the shared storage needs nothing; a file is loaded, put
\* into the cache and parsed; any other name goes to the include callback,
\* which calls parse on this thread
ParseInclude(t) ==
  /\ eth[t].pc = "parsing"
  /\ ParseTop(t).todo # <<>>
  /\ LET name == Head(ParseTop(t).todo)
     IN IF name \in DOMAIN tl_parse_cache_[t] \/ name \in DOMAIN theap[ParseTop(t).tmpl_storage]
        THEN SetParseTop(t, NextStatement(ParseTop(t))) /\ UNCHANGED tl_parse_cache_
        ELSE IF name \in Files
        THEN /\ SetParseTop(t, NextStatement(ParseTop(t)))
             /\ CacheEmplace(t, name, ParsedTemplate(t, name))
        ELSE /\ EnvSet(t, [eth[t] EXCEPT !.parse = Append(@, ParseFrame(CallbackSource))])
             /\ UNCHANGED tl_parse_cache_
  /\ UNCHANGED <<fheap, theap, function_storage_, template_storage_, write_mutex_,
                 render_config, tl_render_errors_, eops, registered>>
  /\ UNCHANGED notEnv

\* the parser throws: the catch clause of lines 459-463 clears the thread's
\* cache and rethrows, through every parse on the thread's stack
ParseRaises(t) ==
  /\ eth[t].pc = "parsing"
  /\ ParseTop(t).todo = <<>> /\ ParseTop(t).error
  /\ tl_parse_cache_' = [tl_parse_cache_ EXCEPT ![t] = <<>>]
  /\ EnvSet(t, [IdleEnvThread EXCEPT !.pc = "parse_raised",
                                     !.tmpls_at_entry = eth[t].tmpls_at_entry])
  /\ UNCHANGED <<fheap, theap, function_storage_, template_storage_, write_mutex_,
                 render_config, tl_render_errors_, eops, registered>>
  /\ UNCHANGED notEnv

\* the caller has caught the exception
ParseCaught(t) ==
  /\ eth[t].pc = "parse_raised"
  /\ EnvSet(t, IdleEnvThread)
  /\ UNCHANGED <<fheap, theap, function_storage_, template_storage_, write_mutex_,
                 render_config, tl_render_errors_, tl_parse_cache_, eops, registered>>
  /\ UNCHANGED notEnv

\* parse returns its template, line 457: to the caller, or to the include
\* callback, whose result the parser of the enclosing parse puts into the
\* cache under the name it asked for
ParseReturned(t) ==
  IF Len(eth[t].parse) = 1 THEN [IdleEnvThread EXCEPT !.pc = "idle"]
  ELSE [eth[t] EXCEPT !.pc = "parsing", !.op = <<>>, !.new_storage = <<>>,
                      !.parse = [SubSeq(@, 1, Len(@) - 1) EXCEPT ![Len(@) - 1] =
                                   NextStatement(@)]]
ResolvedName(t) == Head(eth[t].parse[Len(eth[t].parse) - 1].todo)
CacheAfterReturn(t, cache) ==
  IF Len(eth[t].parse) = 1 THEN cache
  ELSE Emplace(cache, ResolvedName(t), ParsedTemplate(t, ResolvedName(t)))

\* merge_parse_cache with an empty cache, line 77, and the return of parse
ParseMergeNothing(t) ==
  /\ eth[t].pc = "parsing"
  /\ ParseTop(t).todo = <<>> /\ ~ParseTop(t).error
  /\ DOMAIN tl_parse_cache_[t] = {}
  /\ tl_parse_cache_' = [tl_parse_cache_ EXCEPT ![t] = CacheAfterReturn(t, @)]
  /\ EnvSet(t, ParseReturned(t))
  /\ UNCHANGED <<fheap, theap, function_storage_, template_storage_, write_mutex_,
                 render_config, tl_render_errors_, eops, registered>>
  /\ UNCHANGED notEnv

\* merge_parse_cache, line 79: std::lock_guard lock(write_mutex_)
MergeLock(t) ==
  /\ eth[t].pc = "parsing"
  /\ ParseTop(t).todo = <<>> /\ ~ParseTop(t).error
  /\ DOMAIN tl_parse_cache_[t] # {}
  /\ write_mutex_ = NoThread
  /\ write_mutex_' = t
  /\ EnvSet(t, [eth[t] EXCEPT !.pc = "merge_copy",
                              !.op = <<"merge_parse_cache", tl_parse_cache_[t]>>])
  /\ UNCHANGED <<fheap, theap, function_storage_, template_storage_,
                 render_config, tl_render_errors_, tl_parse_cache_, eops, registered>>
  /\ UNCHANGED notEnv

\* merge_parse_cache, lines 81-89
MergeCopy(t) ==
  /\ eth[t].pc = "merge_copy"
  /\ EnvSet(t, [eth[t] EXCEPT !.pc = "merge_store",
                              !.new_storage = ApplyOp(eth[t].op, LoadCurrent(eth[t].op))])
  /\ UNCHANGED <<fheap, theap, function_storage_, template_storage_, write_mutex_,
                 render_config, tl_render_errors_, tl_parse_cache_, eops, registered>>
  /\ UNCHANGED notEnv

\* merge_parse_cache, lines 92-94, and the return of parse
MergeStore(t) ==
  /\ eth[t].pc = "merge_store"
  /\ LET p == Publish(theap, template_storage_, eth[t].new_storage)
     IN theap' = p.heap /\ template_storage_' = p.current
  /\ write_mutex_' = NoThread
  /\ registered' = registered \cup
       { <<"merge_parse_cache", n, eth[t].op[2][n]>> : n \in DOMAIN eth[t].op[2] }
  /\ tl_parse_cache_' = [tl_parse_cache_ EXCEPT ![t] = CacheAfterReturn(t, <<>>)]
  /\ EnvSet(t, ParseReturned(t))
  /\ UNCHANGED <<fheap, function_storage_, render_config, tl_render_errors_, eops>>
  /\ UNCHANGED notEnv

WriterOps ==
  { <<"add_callback", n, a, c>> : n \in CallbackNames, a \in CallbackArities, c \in CallbackIds }
  \cup { <<"add_void_callback", n, 0, c>> : n \in CallbackNames, c \in {"cb1"} }
  \cup { <<"include_template", n, x>> : n \in TemplateNames, x \in TemplateIds }

EnvNext ==
  \/ \E t \in EnvThreads : RenderBegin(t)
  \/ \E t \in EnvThreads : RenderLoadFunctions(t)
  \/ \E t \in EnvThreads : RenderSnapshotConfig(t)
  \/ \E t \in EnvThreads, name \in CallbackNames : RenderCall(t, name)
  \/ \E t \in EnvThreads, name \in TemplateNames : RenderInclude(t, name)
  \/ \E t \in EnvThreads : RenderFinish(t)
  \/ \E t \in EnvThreads : RenderReturn(t)
  \/ \E t \in EnvThreads, op \in WriterOps : WriterLock(t, op)
  \/ \E t \in EnvThreads : WriterCopy(t)
  \/ \E t \in EnvThreads : WriterStore(t)
  \/ \E t \in EnvThreads, graceful \in BOOLEAN : SetGracefulErrors(t, graceful)

\* ---------------------------------------------------------------------------
\* look-ups in the function storage while callbacks are registered
\* ---------------------------------------------------------------------------
LookupNames == {"f", "at"}
LookupArities == {0, 1, 2}
LookupWriterOps ==
  { <<"add_callback", "f", a, c>> : a \in {0, 1, VARIADIC}, c \in CallbackIds }
  \cup { <<"add_callback", "at", 2, "cb1">> }

\* get_function_storage_snapshot()->find_function(name, num_args), as the
\* parser does for a call and visit(DataNode) (renderer.hpp 313) for a name
FindFunction(t, name, num_args) ==
  /\ eth[t].pc = "idle"
  /\ eops < MaxEnvOps
  /\ eops' = eops + 1
  /\ EnvSet(t, [IdleEnvThread EXCEPT
                  !.func_storage = function_storage_,
                  !.out = <<"find", name, num_args,
                            find_function(fheap[function_storage_], name, num_args)>>])
  /\ UNCHANGED <<fheap, theap, function_storage_, template_storage_, write_mutex_,
                 render_config, tl_render_errors_, tl_parse_cache_, registered>>
  /\ UNCHANGED notEnv

LookupNext ==
  \/ \E t \in EnvThreads, op \in LookupWriterOps : WriterLock(t, op)
  \/ \E t \in EnvThreads : WriterCopy(t)
  \/ \E t \in EnvThreads : WriterStore(t)
  \/ \E t \in EnvThreads, name \in LookupNames, n \in LookupArities : FindFunction(t, name, n)

\* the registrations made while other threads parse
ParseWriterOps ==
  { <<"add_callback", "f", 0, "cb1">>, <<"add_void_callback", "g", 0, "cb1">>,
    <<"include_template", "a", "T1">> }

ParseNext ==
  \/ \E t \in EnvThreads, src \in ParseSources : ParseBegin(t, src)
  \/ \E t \in EnvThreads : ParseInclude(t)
  \/ \E t \in EnvThreads : ParseRaises(t)
  \/ \E t \in EnvThreads : ParseCaught(t)
  \/ \E t \in EnvThreads : ParseMergeNothing(t)
  \/ \E t \in EnvThreads : MergeLock(t)
  \/ \E t \in EnvThreads : MergeCopy(t)
  \/ \E t \in EnvThreads : MergeStore(t)
  \/ \E t \in EnvThreads, op \in ParseWriterOps : WriterLock(t, op)
  \/ \E t \in EnvThreads : WriterCopy(t)
  \/ \E t \in EnvThreads : WriterStore(t)

\* ---------------------------------------------------------------------------
\* Templates.  A template is written as a sequence of items; its content is
\* the text of the items and its nodes carry the offsets of their tokens in
\* that content, as the parser leaves them.
\* ---------------------------------------------------------------------------

\* expressions as written
Lit(v) == [e |-> "lit", v |-> v]
Var(name) == [e |-> "var", name |-> name]
Call(name, args) == [e |-> "call", name |-> name, args |-> args]
Pipe(name, args) == [e |-> "pipe", name |-> name, args |-> args]
Bin(sym, op, a, b) == [e |-> "bin", sym |-> sym, op |-> op, args |-> <<a, b>>]
NotE(a) == [e |-> "not", args |-> <<a>>]

\* items as written
TextItem(text) == [s |-> "text", text |-> text]
ExprItem(e) == [s |-> "expr", e |-> e]
SetItem(key, e) == [s |-> "set", key |-> key, e |-> e]
IfItem(e, then) == [s |-> "if", e |-> e, then |-> then, else |-> <<>>, has_else |-> FALSE]
IfElseItem(e, then, else) == [s |-> "if", e |-> e, then |-> then, else |-> else, has_else |-> TRUE]
ForItem(value, e, body) == [s |-> "for", value |-> value, e |-> e, body |-> body]
ForObjectItem(key, value, e, body) ==
  [s |-> "forobject", key |-> key, value |-> value, e |-> e, body |-> body]
IncludeItem(file) == [s |-> "include", file |-> file]
ExtendsItem(file) == [s |-> "extends", file |-> file]
BlockItem(name, body) == [s |-> "block", name |-> name, body |-> body]

RECURSIVE Src(_)
RECURSIVE SrcArgs(_, _)
\* the source text of an expression
Src(e) ==
  CASE e.e = "lit" -> Dump(e.v)
    [] e.e = "var" -> e.name
    [] e.e = "call" -> e.name \o "(" \o SrcArgs(e.args, 1) \o ")"
    [] e.e = "pipe" -> Src(e.args[1]) \o " | " \o e.name
                       \o (IF Len(e.args) > 1 THEN "(" \o SrcArgs(e.args, 2) \o ")" ELSE "")
    [] e.e = "bin" -> Src(e.args[1]) \o " " \o e.sym \o " " \o Src(e.args[2])
    [] e.e = "not" -> "not " \o Src(e.args[1])
SrcArgs(args, i) ==
  IF i > Len(args) THEN ""
  ELSE Src(args[i]) \o (IF i < Len(args) THEN ", " ELSE "") \o SrcArgs(args, i + 1)

RECURSIVE SplitFrom(_, _, _)
\* the pieces of `name` between dots, from position i, the current piece
\* starting at position `from`
SplitFrom(name, from, i) ==
  IF i > Len(name) THEN <<SubSeq(name, from, Len(name))>>
  ELSE IF SubSeq(name, i, i) = "."
       THEN <<SubSeq(name, from, i - 1)>> \o SplitFrom(name, i + 1, i + 1)
       ELSE SplitFrom(name, from, i + 1)
\* DataNode::convert_dot_to_ptr, as the sequence of reference tokens
convert_dot_to_ptr(name) == SplitFrom(name, 1, 1)

LiteralNode(value, pos) == [k |-> "Literal", value |-> value, pos |-> pos]
DataNode(name, pos) == [k |-> "Data", name |-> name, ptr |-> convert_dot_to_ptr(name), pos |-> pos]
FunctionNode(operation, name, arguments, callback, pos) ==
  [k |-> "Function", operation |-> operation, name |-> name, arguments |-> arguments,
   callback |-> callback, pos |-> pos]
ExpressionListNode(root, pos, length) ==
  [k |-> "ExpressionList", root |-> root, pos |-> pos, length |-> length]

RECURSIVE Place(_, _, _)
RECURSIVE PlaceArgs(_, _, _, _)
\* the node of expression e written at offset pos, functions resolved in fs
Place(e, pos, fs) ==
  CASE e.e = "lit" -> LiteralNode(e.v, pos)
    [] e.e = "var" -> DataNode(e.name, pos)
    [] e.e = "call" ->
         LET fd == find_function(fs, e.name, Len(e.args))
         IN FunctionNode(fd.operation, e.name,
                         PlaceArgs(e.args, 1, pos + Len(e.name) + 1, fs), fd.callback, pos)
    [] e.e = "pipe" ->
         LET fd == find_function(fs, e.name, Len(e.args))
             at == pos + Len(Src(e.args[1])) + 3
         IN FunctionNode(fd.operation, e.name,
                         <<Place(e.args[1], pos, fs)>>
                           \o PlaceArgs(e.args, 2, at + Len(e.name) + 1, fs),
                         fd.callback, at)
    [] e.e = "bin" ->
         LET at == pos + Len(Src(e.args[1])) + 1
         IN FunctionNode(e.op, e.sym,
                         <<Place(e.args[1], pos, fs),
                           Place(e.args[2], at + Len(e.sym) + 1, fs)>>,
                         NoCallback, at)
    [] e.e = "not" ->
         FunctionNode("Not", "not", <<Place(e.args[1], pos + 4, fs)>>, NoCallback, pos)
PlaceArgs(args, i, pos, fs) ==
  IF i > Len(args) THEN <<>>
  ELSE <<Place(args[i], pos, fs)>> \o PlaceArgs(args, i + 1, pos + Len(Src(args[i])) + 2, fs)

RECURSIVE SrcItem(_)
RECURSIVE SrcItems(_, _)
SrcItem(it) ==
  CASE it.s = "text" -> it.text
    [] it.s = "expr" -> "{{ " \o Src(it.e) \o " }}"
    [] it.s = "set" -> "{% set " \o it.key \o " = " \o Src(it.e) \o " %}"
    [] it.s = "if" -> "{% if " \o Src(it.e) \o " %}" \o SrcItems(it.then, 1)
                      \o (IF it.has_else THEN "{% else %}" \o SrcItems(it.else, 1) ELSE "")
                      \o "{% endif %}"
    [] it.s = "for" -> "{% for " \o it.value \o " in " \o Src(it.e) \o " %}"
                       \o SrcItems(it.body, 1) \o "{% endfor %}"
    [] it.s = "forobject" ->
         "{% for " \o it.key \o ", " \o it.value \o " in " \o Src(it.e) \o " %}"
           \o SrcItems(it.body, 1) \o "{% endfor %}"
    [] it.s = "include" -> "{% include \"" \o it.file \o "\" %}"
    [] it.s = "extends" -> "{% extends \"" \o it.file \o "\" %}"
    [] it.s = "block" -> "{% block " \o it.name \o " %}" \o SrcItems(it.body, 1)
                         \o "{% endblock %}"
SrcItems(items, i) ==
  IF i > Len(items) THEN "" ELSE SrcItem(items[i]) \o SrcItems(items, i + 1)

BlockNode(nodes) == [k |-> "Block", nodes |-> nodes]

RECURSIVE PlaceItem(_, _, _)
RECURSIVE PlaceItems(_, _, _, _)
PlaceItem(it, pos, fs) ==
  CASE it.s = "text" -> [k |-> "Text", pos |-> pos, length |-> Len(it.text)]
    [] it.s = "expr" ->
         ExpressionListNode(Place(it.e, pos + 3, fs), pos, Len(SrcItem(it)))
    [] it.s = "set" ->
         LET at == pos + 7 + Len(it.key) + 3
         IN [k |-> "Set", key |-> it.key, pos |-> pos,
             expression |-> ExpressionListNode(Place(it.e, at, fs), at, Len(Src(it.e)))]
    [] it.s = "if" ->
         LET at == pos + 6
             body == at + Len(Src(it.e)) + 3
         IN [k |-> "If", pos |-> pos,
             condition |-> ExpressionListNode(Place(it.e, at, fs), at, Len(Src(it.e))),
             true_statement |-> BlockNode(PlaceItems(it.then, 1, body, fs)),
             has_false_statement |-> it.has_else,
             false_statement |->
               BlockNode(PlaceItems(it.else, 1, body + Len(SrcItems(it.then, 1)) + 10, fs))]
    [] it.s = "for" ->
         LET at == pos + 7 + Len(it.value) + 4
         IN [k |-> "ForArray", pos |-> pos, value |-> it.value,
             condition |-> ExpressionListNode(Place(it.e, at, fs), at, Len(Src(it.e))),
             body |-> BlockNode(PlaceItems(it.body, 1, at + Len(Src(it.e)) + 3, fs))]
    [] it.s = "forobject" ->
         LET at == pos + 7 + Len(it.key) + 2 + Len(it.value) + 4
         IN [k |-> "ForObject", pos |-> pos, key |-> it.key, value |-> it.value,
             condition |-> ExpressionListNode(Place(it.e, at, fs), at, Len(Src(it.e))),
             body |-> BlockNode(PlaceItems(it.body, 1, at + Len(Src(it.e)) + 3, fs))]
    [] it.s = "include" -> [k |-> "Include", pos |-> pos, file |-> it.file]
    [] it.s = "extends" -> [k |-> "Extends", pos |-> pos, file |-> it.file]
    [] it.s = "block" ->
         [k |-> "BlockStatement", pos |-> pos, name |-> it.name,
          block |-> BlockNode(PlaceItems(it.body, 1, pos + 9 + Len(it.name) + 3, fs))]
PlaceItems(items, i, pos, fs) ==
  IF i > Len(items) THEN <<>>
  ELSE <<PlaceItem(items[i], pos, fs)>>
       \o PlaceItems(items, i + 1, pos + Len(SrcItem(items[i])), fs)

RECURSIVE BlocksIn(_, _)
\* the block statements among nodes[i..] and inside their bodies, by name
BlocksIn(nodes, i) ==
  IF i > Len(nodes) THEN <<>>
  ELSE IF nodes[i].k = "BlockStatement"
       THEN (nodes[i].name :> nodes[i]) @@ BlocksIn(nodes[i].block.nodes, 1)
              @@ BlocksIn(nodes, i + 1)
       ELSE BlocksIn(nodes, i + 1)

\* Template: content, root block, and block storage with the template's own
\* block statements
Template(items, fs) ==
  [content |-> SrcItems(items, 1), root |-> BlockNode(PlaceItems(items, 1, 0, fs)),
   block_storage |-> BlocksIn(PlaceItems(items, 1, 0, fs), 1)]
\* a template that extends `parent`: the parent's blocks it does not define
\* itself join its block storage
Extending(tmpl, parent) ==
  [tmpl EXCEPT !.block_storage = @ @@ parent.block_storage]

\* get_source_location: line and column, both from 1, of a 0-based offset
\* (the templates of the model have no line breaks)
get_source_location(content, pos) == [line |-> 1, column |-> pos + 1]

\* ---------------------------------------------------------------------------
\* Value operations the built-in functions rely on (json accessors, the
\* standard library calls of renderer.hpp)
\* ---------------------------------------------------------------------------

Ok(v) == [k |-> "ok", v |-> v]
Throw(what) == [k |-> "throw", what |-> what]

TypeName(j) ==
  CASE j.t = "null" -> "null" [] j.t = "bool" -> "boolean" [] j.t = "str" -> "string"
    [] j.t = "arr" -> "array" [] j.t = "obj" -> "object" [] OTHER -> "number"
TypeError(expected, j) ==
  Throw("[json.exception.type_error.302] type must be " \o expected \o ", but is " \o TypeName(j))

\* integer division truncating toward zero, as static_cast from double does
Trunc(n, d) == IF (n >= 0) = (d > 0) THEN (IF n >= 0 THEN n \div d ELSE (-n) \div (-d))
               ELSE -((IF n >= 0 THEN n ELSE -n) \div (IF d > 0 THEN d ELSE -d))
\* C++ % on integers (sign of the dividend), divisor not 0
Rem(a, b) == a - b * Trunc(a, b)

\* get<number_integer_t>()
GetInteger(j) ==
  CASE j.t = "int" -> Ok(j.n)
    [] j.t = "float" /\ j.d # 0 -> Ok(Trunc(j.n, j.d))
    [] OTHER -> TypeError("number", j)
\* get<int>(): booleans convert as well
GetInt(j) == IF j.t = "bool" THEN Ok(IF j.b THEN 1 ELSE 0) ELSE GetInteger(j)
\* get<number_float_t>(), as a fraction
GetFloat(j) ==
  CASE j.t = "int" -> Ok([n |-> j.n, d |-> 1])
    [] j.t = "float" -> Ok([n |-> j.n, d |-> j.d])
    [] OTHER -> TypeError("number", j)
\* get<std::string>() / get_ref<const string_t&>()
GetString(j) == IF j.t = "str" THEN Ok(j.s) ELSE TypeError("string", j)
\* get<std::vector<json>>()
GetVector(j) == IF j.t = "arr" THEN Ok(j.a) ELSE TypeError("array", j)

\* order of the value types in json comparisons
TypeOrder(j) ==
  CASE j.t = "null" -> 0 [] j.t = "bool" -> 1 [] j.t \in {"int", "float"} -> 2
    [] j.t = "obj" -> 3 [] j.t = "arr" -> 4 [] j.t = "str" -> 5

\* the strings of the model in lexicographic order
StringOrder == <<"", "A", "B", "a", "ab", "b", "x">>
StringRank(s) ==
  IF \E i \in 1..Len(StringOrder) : StringOrder[i] = s
  THEN CHOOSE i \in 1..Len(StringOrder) : StringOrder[i] = s
  ELSE Len(StringOrder) + 1

RECURSIVE JsonLess(_, _)
RECURSIVE SeqLess(_, _, _)
\* operator<(json, json)
JsonLess(a, b) ==
  IF IsNumber(a) /\ IsNumber(b)
  THEN LET x == GetFloat(a).v
           y == GetFloat(b).v
       IN x.d # 0 /\ y.d # 0 /\ x.n * y.d * (IF x.d * y.d > 0 THEN 1 ELSE -1)
                                 < y.n * x.d * (IF x.d * y.d > 0 THEN 1 ELSE -1)
  ELSE IF a.t # b.t THEN TypeOrder(a) < TypeOrder(b)
  ELSE CASE a.t = "bool" -> ~a.b /\ b.b
         [] a.t = "str" -> StringRank(a.s) < StringRank(b.s)
         [] a.t = "arr" -> SeqLess(a.a, b.a, 1)
         [] a.t = "obj" -> SeqLess(Elements(a), Elements(b), 1)
         [] OTHER -> FALSE
SeqLess(a, b, i) ==
  IF i > Len(b) THEN FALSE
  ELSE IF i > Len(a) THEN TRUE
  ELSE IF JsonLess(a[i], b[i]) THEN TRUE
  ELSE IF JsonLess(b[i], a[i]) THEN FALSE
  ELSE SeqLess(a, b, i + 1)

\* operator==(json, json): numbers compare by value
JsonEqual(a, b) ==
  IF IsNumber(a) /\ IsNumber(b) /\ a.t # b.t
  THEN GetFloat(a).v.d # 0 /\ GetFloat(b).v.d # 0
       /\ GetFloat(a).v.n * GetFloat(b).v.d = GetFloat(b).v.n * GetFloat(a).v.d
  ELSE a = b

RECURSIVE Pow(_, _)
Pow(b, e) == IF e <= 0 THEN 1 ELSE b * Pow(b, e - 1)

LowerCase == "abcdefghijklmnopqrstuvwxyz"
UpperCase == "ABCDEFGHIJKLMNOPQRSTUVWXYZ"
IndexIn(alphabet, c) ==
  IF \E i \in 1..Len(alphabet) : SubSeq(alphabet, i, i) = c
  THEN CHOOSE i \in 1..Len(alphabet) : SubSeq(alphabet, i, i) = c
  ELSE 0
ToUpperChar(c) == IF IndexIn(LowerCase, c) > 0
                  THEN SubSeq(UpperCase, IndexIn(LowerCase, c), IndexIn(LowerCase, c)) ELSE c
ToLowerChar(c) == IF IndexIn(UpperCase, c) > 0
                  THEN SubSeq(LowerCase, IndexIn(UpperCase, c), IndexIn(UpperCase, c)) ELSE c
RECURSIVE ToUpper(_)
ToUpper(s) == IF s = "" THEN "" ELSE ToUpperChar(SubSeq(s, 1, 1)) \o ToUpper(SubSeq(s, 2, Len(s)))
RECURSIVE ToLower(_)
ToLower(s) == IF s = "" THEN "" ELSE ToLowerChar(SubSeq(s, 1, 1)) \o ToLower(SubSeq(s, 2, Len(s)))

RECURSIVE replace_substring(_, _, _)
\* utils.hpp replace_substring: every occurrence of f in s becomes t
replace_substring(s, f, t) ==
  IF f = "" \/ Len(s) < Len(f) THEN s
  ELSE IF SubSeq(s, 1, Len(f)) = f
       THEN t \o replace_substring(SubSeq(s, Len(f) + 1, Len(s)), f, t)
       ELSE SubSeq(s, 1, 1) \o replace_substring(SubSeq(s, 2, Len(s)), f, t)

Digits == "0123456789"
RECURSIVE DigitsValue(_, _)
DigitsValue(s, acc) ==
  IF s = "" THEN acc
  ELSE DigitsValue(SubSeq(s, 2, Len(s)), 10 * acc + IndexIn(Digits, SubSeq(s, 1, 1)) - 1)
RECURSIVE LeadingDigits(_)
LeadingDigits(s) ==
  IF s = "" \/ IndexIn(Digits, SubSeq(s, 1, 1)) = 0 THEN ""
  ELSE SubSeq(s, 1, 1) \o LeadingDigits(SubSeq(s, 2, Len(s)))
\* std::stoi / std::stod on the unsigned decimal strings of the model
StringToInt(s) ==
  IF LeadingDigits(s) = "" THEN Throw("stoi") ELSE Ok(DigitsValue(LeadingDigits(s), 0))

RECURSIVE InsertSorted(_, _)
InsertSorted(sorted, v) ==
  IF sorted = <<>> THEN <<v>>
  ELSE IF JsonLess(v, Head(sorted)) THEN <<v>> \o sorted
  ELSE <<Head(sorted)>> \o InsertSorted(Tail(sorted), v)
RECURSIVE SortJson(_)
\* std::sort of a vector of json
SortJson(a) == IF a = <<>> THEN <<>> ELSE InsertSorted(SortJson(Tail(a)), Head(a))

\* std::max_element / std::min_element, as an index (0 for an empty range)
MaxElement(a) ==
  IF a = <<>> THEN 0
  ELSE CHOOSE i \in 1..Len(a) :
         /\ \A j \in 1..Len(a) : ~JsonLess(a[i], a[j])
         /\ \A j \in 1..(i - 1) : JsonLess(a[j], a[i])
MinElement(a) ==
  IF a = <<>> THEN 0
  ELSE CHOOSE i \in 1..Len(a) :
         /\ \A j \in 1..Len(a) : ~JsonLess(a[j], a[i])
         /\ \A j \in 1..(i - 1) : JsonLess(a[i], a[j])

RECURSIVE JoinFrom(_, _, _)
JoinFrom(a, sep, i) ==
  IF i > Len(a) THEN ""
  ELSE (IF i > 1 THEN sep ELSE "")
       \o (IF a[i].t = "str" THEN a[i].s ELSE Dump(a[i])) \o JoinFrom(a, sep, i + 1)

FloatOf(n, d) == JFloat(n, d)
RoundDiv(a, b) == IF a >= 0 THEN (2 * a + b) \div (2 * b) ELSE -((2 * (-a) + b) \div (2 * b))
Missing(name, message) == [k |-> "missing", name |-> name, message |-> message]

\* the names INJA_OP_TRY_END_GRACEFUL is given
OpName(op) ==
  CASE op = "Add" -> "add" [] op = "Subtract" -> "subtract" [] op = "Multiplication" -> "multiply"
    [] op = "Division" -> "division" [] op = "Power" -> "power" [] op = "Modulo" -> "modulo"
    [] op = "Capitalize" -> "capitalize" [] op = "DivisibleBy" -> "divisibleBy"
    [] op = "Even" -> "even" [] op = "Exists" -> "exists" [] op = "ExistsInObject" -> "existsIn"
    [] op = "First" -> "first" [] op = "Float" -> "float" [] op = "Int" -> "int"
    [] op = "Last" -> "last" [] op = "Length" -> "length" [] op = "Lower" -> "lower"
    [] op = "Max" -> "max" [] op = "Min" -> "min" [] op = "Odd" -> "odd"
    [] op = "Range" -> "range" [] op = "Replace" -> "replace" [] op = "Round" -> "round"
    [] op = "Sort" -> "sort" [] op = "Upper" -> "upper" [] op = "Join" -> "join"

TryOps ==
  {"Add", "Subtract", "Multiplication", "Division", "Power", "Modulo", "Capitalize",
   "DivisibleBy", "Even", "Exists", "ExistsInObject", "First", "Float", "Int", "Last",
   "Length", "Lower", "Max", "Min", "Odd", "Range", "Replace", "Round", "Sort", "Upper",
   "Join"}

\* number of arguments the operation takes from the node
OpArity(op) ==
  CASE op \in {"Add", "Subtract", "Multiplication", "Division", "Power", "Modulo",
               "DivisibleBy", "ExistsInObject", "Round", "Join", "In", "Equal", "NotEqual",
               "Greater", "GreaterEqual", "Less", "LessEqual", "At"} -> 2
    [] op = "Replace" -> 3
    [] OTHER -> 1

\* the body between INJA_OP_TRY_BEGIN and INJA_OP_TRY_END_GRACEFUL after
\* get_arguments, lines 393-697 and 757-773.  a = the arguments (all non-null).
TryOpBody(op, a, data_input) ==
  CASE op = "Add" ->
         IF a[1].t = "str" /\ a[2].t = "str" THEN Ok(JStr(a[1].s \o a[2].s))
         ELSE IF a[1].t = "int" /\ a[2].t = "int" THEN Ok(JInt(a[1].n + a[2].n))
         ELSE LET x == GetFloat(a[1])  y == GetFloat(a[2])
              IN IF x.k # "ok" THEN x ELSE IF y.k # "ok" THEN y
                 ELSE Ok(FloatOf(x.v.n * y.v.d + y.v.n * x.v.d, x.v.d * y.v.d))
    [] op = "Subtract" ->
         IF a[1].t = "int" /\ a[2].t = "int" THEN Ok(JInt(a[1].n - a[2].n))
         ELSE LET x == GetFloat(a[1])  y == GetFloat(a[2])
              IN IF x.k # "ok" THEN x ELSE IF y.k # "ok" THEN y
                 ELSE Ok(FloatOf(x.v.n * y.v.d - y.v.n * x.v.d, x.v.d * y.v.d))
    [] op = "Multiplication" ->
         IF a[1].t = "int" /\ a[2].t = "int" THEN Ok(JInt(a[1].n * a[2].n))
         ELSE LET x == GetFloat(a[1])  y == GetFloat(a[2])
              IN IF x.k # "ok" THEN x ELSE IF y.k # "ok" THEN y
                 ELSE Ok(FloatOf(x.v.n * y.v.n, x.v.d * y.v.d))
    [] op = "Division" ->
         LET x == GetFloat(a[1])  y == GetFloat(a[2])
         IN IF y.k # "ok" THEN y
            ELSE IF y.v.n = 0 /\ y.v.d # 0
                 THEN [k |-> "divzero",
                       v |-> IF x.k = "ok" THEN Ok(FloatOf(x.v.n, 0)) ELSE x]
            ELSE IF x.k # "ok" THEN x
            ELSE Ok(FloatOf(x.v.n * y.v.d, x.v.d * y.v.n))
    [] op = "Power" ->
         LET e == GetInteger(a[2])
         IN IF e.k # "ok" THEN e
            ELSE IF a[1].t = "int" /\ e.v >= 0 THEN Ok(JInt(Pow(a[1].n, e.v)))
            ELSE LET x == GetFloat(a[1])
                 IN IF x.k # "ok" THEN x
                    ELSE IF e.v >= 0 THEN Ok(FloatOf(Pow(x.v.n, e.v), Pow(x.v.d, e.v)))
                    ELSE Ok(FloatOf(Pow(x.v.d, -e.v), Pow(x.v.n, -e.v)))
    [] op = "Modulo" ->
         LET x == GetInteger(a[1])  y == GetInteger(a[2])
         IN IF x.k # "ok" THEN x ELSE IF y.k # "ok" THEN y
            ELSE IF y.v = 0 THEN [k |-> "ub", what |-> "integer modulo by zero"]
            ELSE Ok(JInt(Rem(x.v, y.v)))
    [] op = "Capitalize" ->
         LET s == GetString(a[1])
         IN IF s.k # "ok" THEN s
            ELSE IF s.v = "" THEN Ok(JStr(""))
            ELSE Ok(JStr(ToUpperChar(SubSeq(s.v, 1, 1)) \o ToLower(SubSeq(s.v, 2, Len(s.v)))))
    [] op = "DivisibleBy" ->
         LET y == GetInteger(a[2])  x == GetInteger(a[1])
         IN IF y.k # "ok" THEN y
            ELSE IF y.v = 0 THEN Ok(JBool(FALSE))
            ELSE IF x.k # "ok" THEN x
            ELSE Ok(JBool(Rem(x.v, y.v) = 0))
    [] op = "Even" ->
         LET x == GetInteger(a[1]) IN IF x.k # "ok" THEN x ELSE Ok(JBool(Rem(x.v, 2) = 0))
    [] op = "Odd" ->
         LET x == GetInteger(a[1]) IN IF x.k # "ok" THEN x ELSE Ok(JBool(Rem(x.v, 2) # 0))
    [] op = "Exists" ->
         LET s == GetString(a[1])
         IN IF s.k # "ok" THEN s ELSE Ok(JBool(Contains(data_input, convert_dot_to_ptr(s.v))))
    [] op = "ExistsInObject" ->
         LET s == GetString(a[2])
         IN IF s.k # "ok" THEN s
            ELSE Ok(JBool(a[1].t = "obj" /\ s.v \in DOMAIN a[1].o))
    [] op = "First" ->
         IF Empty(a[1]) THEN Missing("first", "cannot get first element of empty array")
         ELSE Ok(Elements(a[1])[1])
    [] op = "Last" ->
         IF Empty(a[1]) THEN Missing("last", "cannot get last element of empty array")
         ELSE Ok(Elements(a[1])[Len(Elements(a[1]))])
    [] op = "Float" ->
         LET s == GetString(a[1])
         IN IF s.k # "ok" THEN s
            ELSE IF StringToInt(s.v).k # "ok" THEN Throw("stod")
            ELSE Ok(FloatOf(StringToInt(s.v).v, 1))
    [] op = "Int" ->
         LET s == GetString(a[1])
         IN IF s.k # "ok" THEN s
            ELSE IF StringToInt(s.v).k # "ok" THEN Throw("stoi")
            ELSE Ok(JInt(StringToInt(s.v).v))
    [] op = "Length" ->
         IF a[1].t = "str" THEN Ok(JInt(Len(a[1].s))) ELSE Ok(JInt(Size(a[1])))
    [] op = "Lower" ->
         LET s == GetString(a[1]) IN IF s.k # "ok" THEN s ELSE Ok(JStr(ToLower(s.v)))
    [] op = "Upper" ->
         LET s == GetString(a[1]) IN IF s.k # "ok" THEN s ELSE Ok(JStr(ToUpper(s.v)))
    [] op = "Max" ->
         IF a[1].t = "null" THEN Throw("[json.exception.invalid_iterator.214] cannot get value")
         ELSE IF Empty(a[1]) THEN [k |-> "ub", what |-> "dereference of end()"]
         ELSE Ok(Elements(a[1])[MaxElement(Elements(a[1]))])
    [] op = "Min" ->
         IF a[1].t = "null" THEN Throw("[json.exception.invalid_iterator.214] cannot get value")
         ELSE IF Empty(a[1]) THEN [k |-> "ub", what |-> "dereference of end()"]
         ELSE Ok(Elements(a[1])[MinElement(Elements(a[1]))])
    [] op = "Range" ->
         LET n == GetInteger(a[1])
         IN IF n.k # "ok" THEN n
            ELSE IF n.v < 0 THEN Throw("cannot create std::vector larger than max_size()")
            ELSE Ok(JArr([i \in 1..n.v |-> JInt(i - 1)]))
    [] op = "Replace" ->
         LET s == GetString(a[1])  f == GetString(a[2])  t == GetString(a[3])
         IN IF s.k # "ok" THEN s ELSE IF f.k # "ok" THEN f ELSE IF t.k # "ok" THEN t
            ELSE Ok(JStr(replace_substring(s.v, f.v, t.v)))
    [] op = "Round" ->
         LET p == GetInteger(a[2])  x == GetFloat(a[1])
         IN IF p.k # "ok" THEN p ELSE IF x.k # "ok" THEN x
            ELSE IF x.v.d = 0 THEN Ok(FloatOf(x.v.n, 0))
            ELSE LET s == IF x.v.d > 0 THEN 1 ELSE -1
                     scaled == RoundDiv(s * x.v.n * Pow(10, p.v), s * x.v.d)
                 IN IF p.v = 0 THEN Ok(JInt(scaled)) ELSE Ok(FloatOf(scaled, Pow(10, p.v)))
    [] op = "Sort" ->
         LET v == GetVector(a[1]) IN IF v.k # "ok" THEN v ELSE Ok(JArr(SortJson(v.v)))
    [] op = "Join" ->
         LET s == GetString(a[2])
         IN IF s.k # "ok" THEN s ELSE Ok(JStr(JoinFrom(Elements(a[1]), s.v, 1)))

\* the operations evaluated outside any try block, lines 355-392 and 685-705
PlainOpBody(op, a) ==
  CASE op = "In" -> JBool(\E i \in 1..Len(Elements(a[2])) : JsonEqual(Elements(a[2])[i], a[1]))
    [] op = "Equal" -> JBool(JsonEqual(a[1], a[2]))
    [] op = "NotEqual" -> JBool(~JsonEqual(a[1], a[2]))
    [] op = "Greater" -> JBool(JsonLess(a[2], a[1]))
    [] op = "GreaterEqual" -> JBool(~JsonLess(a[1], a[2]))
    [] op = "Less" -> JBool(JsonLess(a[1], a[2]))
    [] op = "LessEqual" -> JBool(~JsonLess(a[2], a[1]))
    [] op = "IsBoolean" -> JBool(a[1].t = "bool")
    [] op = "IsNumber" -> JBool(IsNumber(a[1]))
    [] op = "IsInteger" -> JBool(a[1].t = "int")
    [] op = "IsFloat" -> JBool(a[1].t = "float")
    [] op = "IsObject" -> JBool(a[1].t = "obj")
    [] op = "IsArray" -> JBool(a[1].t = "arr")
    [] op = "IsString" -> JBool(a[1].t = "str")
PlainOps ==
  {"In", "Equal", "NotEqual", "Greater", "GreaterEqual", "Less", "LessEqual", "IsBoolean",
   "IsNumber", "IsInteger", "IsFloat", "IsObject", "IsArray", "IsString"}

\* ---------------------------------------------------------------------------
\* Renderer (renderer.hpp).  r is the renderer's state together with the
\* stream it writes and the cache its wrapper uses; x is what a render only
\* reads: config, template_storage, function_storage, data_input, the cache
\* configuration and the clock reading.
\* ---------------------------------------------------------------------------

NoExc == [type |-> "none"]
RenderError(message, location) ==
  [type |-> "RenderError", message |-> message, location |-> location]
\* an exception that is not an inja error: json, standard library, callback
StdException(what) == [type |-> "std", what |-> what]

\* exceptions.hpp: what() of an InjaError
What(exc) ==
  IF exc.type = "RenderError"
  THEN "[inja.exception.render_error] (at " \o ToString(exc.location.line) \o ":"
       \o ToString(exc.location.column) \o ") " \o exc.message
  ELSE exc.what

Halted(r) == r.exc # NoExc \/ r.ub

\* Renderer::Renderer, lines 1092-1093 with the member initialisers of 68-83.
\* `recovered` is a history of the model: the errors the renderers of one
\* render, sub-renderers included, have recorded in graceful mode, and
\* `executed` the callbacks they have run, `inplaced` those of them that
\* were in-place callbacks
NewRenderer(out, events, traces, cache) ==
  [out |-> out, stack |-> <<>>, nf |-> <<>>,
   additional_data |-> SetKey(JNull, "loop", JNull),
   render_errors |-> <<>>, events |-> events, traces |-> traces, exc |-> NoExc,
   ub |-> FALSE, cache |-> cache, break_rendering |-> FALSE, content |-> "",
   template_stack |-> <<>>, recovered |-> <<>>, executed |-> <<>>, inplaced |-> <<>>,
   current_level |-> 0, block_statement_stack |-> <<>>]

emit_event(r, x, event, name, detail, count) ==
  IF x.config.instrumentation
  THEN [r EXCEPT !.events = Append(@, <<event, name, detail, count>>)]
  ELSE r

RenderErrorInfo(message, location, original_text) ==
  [message |-> message, location |-> location, original_text |-> original_text]

throw_renderer_error(r, x, message, pos, original_text) ==
  LET loc == get_source_location(r.content, pos)
  IN IF x.config.graceful_errors
     THEN [r EXCEPT !.render_errors = Append(@, RenderErrorInfo(message, loc, original_text)),
                    !.recovered = Append(@, RenderErrorInfo(message, loc, original_text))]
     ELSE [r EXCEPT !.exc = RenderError(message, loc)]

Substr(content, pos, length) == SubSeq(content, pos + 1, pos + length)

OriginalText(r, x, node) ==
  IF x.config.graceful_errors /\ node.length > 0
  THEN Substr(r.content, node.pos, node.length) ELSE ""

Push(r, v) == [r EXCEPT !.stack = Append(@, v)]
PushNotFound(r, name, pos) ==
  [r EXCEPT !.stack = Append(@, Nullptr), !.nf = Append(@, [name |-> name, pos |-> pos])]
Top(s) == s[Len(s)]
Pop(s) == SubSeq(s, 1, Len(s) - 1)
Undefined(r) == [r EXCEPT !.ub = TRUE]

truthy(data) ==
  IF data = Nullptr THEN FALSE
  ELSE IF data.t = "bool" THEN data.b
  ELSE IF data.t = "int" THEN data.n # 0
  ELSE IF data.t = "float" THEN data.n # 0
  ELSE IF data.t = "null" THEN FALSE
  ELSE ~Empty(data)

RECURSIVE htmlescape(_)
htmlescape(data) ==
  IF data = "" THEN ""
  ELSE LET c == SubSeq(data, 1, 1)
       IN (CASE c = "&" -> "&amp;" [] c = "\"" -> "&quot;" [] c = "'" -> "&apos;"
             [] c = "<" -> "&lt;" [] c = ">" -> "&gt;" [] OTHER -> c)
          \o htmlescape(SubSeq(data, 2, Len(data)))

print_data(r, x, value) ==
  [r EXCEPT !.out = @ \o
     (IF value.t = "str" THEN (IF x.config.html_autoescape THEN htmlescape(value.s) ELSE value.s)
      ELSE IF value.t = "int" THEN ToString(value.n)
      ELSE IF value.t = "null" THEN ""
      ELSE Dump(value))]

\* json::clear()
ClearValue(j) ==
  CASE j.t = "bool" -> JBool(FALSE) [] j.t = "int" -> JInt(0) [] j.t = "float" -> JFloat(0, 1)
    [] j.t = "str" -> JStr("") [] j.t = "arr" -> JArr(<<>>) [] j.t = "obj" -> EmptyObject
    [] OTHER -> j

\* json::push_back(v) on target
PushBack(target, v) ==
  CASE target.t = "arr" -> Ok(JArr(Append(target.a, v)))
    [] target.t = "null" -> Ok(JArr(<<v>>))
    [] OTHER -> Throw("[json.exception.type_error.308] cannot use push_back() with "
                      \o TypeName(target))

\* the callbacks registered for the renders of the model
\* append(arr, x): a copy of arr with x pushed onto it
\* twice(n): 2n; answer(): 42; log(x): the lambda add_void_callback
\* registers, which runs the void callback and returns json();
\* push(arr, x): a user's callback that does what append does
CallbackBody(cb, args) ==
  CASE cb = "append" -> PushBack(args[1], args[2])
    [] cb = "push" -> PushBack(args[1], args[2])
    [] cb = "twice" -> IF args[1].t = "int" THEN Ok(JInt(2 * args[1].n)) ELSE Ok(JNull)
    [] cb = "answer" -> Ok(JInt(42))
    [] cb = "log" -> Ok(JNull)
    [] OTHER -> Ok(JNull)
\* append's in-place variant: pushes x onto arr itself; push's in-place
\* variant tests its argument pointer first and leaves arr alone on null
InplaceBody(cb, target, remaining_args) ==
  CASE cb = "append_inplace" -> PushBack(target, remaining_args[1])
    [] cb = "push_inplace" -> IF remaining_args[1] = Nullptr THEN Ok(target)
                              ELSE PushBack(target, remaining_args[1])
    [] OTHER -> Ok(target)
\* the in-place callbacks that read *args[i] without a test
Dereferences(cb) == cb = "append_inplace"
\* the outcome of a call that dereferences a null pointer
UndefinedCall == [k |-> "undefined", what |-> ""]

\* CallbackCache::put as one thread runs it, lines 204-233
put(c, cfg, function_name, args, value, tnow) ==
  IF put_skips(cfg, value) THEN c
  ELSE put_locked(c, cfg, make_cache_key(function_name, args), value, tnow + cfg.ttl, tnow)

\* make_caching_wrapper's lambda after try_get, callback_cache.hpp 296-307:
\* got is what try_get returned
caching_wrapper_after_get(r, x, name, thunk, args_after, got) ==
  IF got.found
  THEN [r |-> [r EXCEPT !.cache = got.c], invoked |-> FALSE, result |-> Ok(got.value)]
  ELSE [r |-> [r EXCEPT !.cache =
                 IF thunk.k # "ok" THEN got.c
                 ELSE put(got.c, x.cache_config, name, args_after, thunk.v, x.now)],
        invoked |-> TRUE, result |-> thunk]

\* a cache predicate: the function names it returns true for
CachePredicate(names) == [t |-> "predicate", names |-> names]
\* a wrapper that never asks the predicate
vetoed_never(should_cache, function_name) == FALSE
\* `should_cache_ && !should_cache_(function_name)`, callback_cache.hpp 291
vetoed(should_cache, function_name) ==
  should_cache # Nullptr /\ function_name \notin should_cache.names

\* config.callback_wrapper(name, args, thunk).  thunk is the result the
\* thunk gives if it is run, args_after the values args point to once
\* it has run.  The tracing wrapper records the name and runs the thunk; the
\* caching wrapper is make_caching_wrapper, callback_cache.hpp 286-309.
callback_wrapper(r, x, name, args, thunk, args_after) ==
  IF x.config.callback_wrapper = "tracing"
  THEN [r |-> [r EXCEPT !.traces = Append(@, name)], invoked |-> TRUE, result |-> thunk]
  ELSE IF vetoed(x.should_cache, name)
  THEN [r |-> r, invoked |-> TRUE, result |-> thunk]
  ELSE caching_wrapper_after_get(r, x, name, thunk, args_after,
         try_get_locked(r.cache, make_cache_key(name, args), x.now))

\* the thunk has run: the callback is added to the history
Executed(w, name) ==
  IF w.invoked THEN [w EXCEPT !.r.executed = Append(@, name)] ELSE w

\* `if (config.callback_wrapper) wrapper(name, args, thunk) else thunk()`,
\* lines 315-325, 717-725 and 1014-1031
WrappedCall(r, x, name, args, thunk, args_after) ==
  Executed(IF x.config.callback_wrapper = "none"
           THEN [r |-> r, invoked |-> TRUE, result |-> thunk]
           ELSE callback_wrapper(r, x, name, args, thunk, args_after),
           name)

RECURSIVE PopArguments(_, _, _, _, _)
\* the second loop of get_arguments / get_argument_vector, lines 224-246:
\* n values are taken from the stack, last argument first
PopArguments(r, x, n, throw_not_found, acc) ==
  IF n = 0 \/ Halted(r) THEN [r |-> r, args |-> acc]
  ELSE IF r.stack = <<>> THEN [r |-> Undefined(r), args |-> acc]
  ELSE IF Top(r.stack) # Nullptr
  THEN PopArguments([r EXCEPT !.stack = Pop(@)], x, n - 1, throw_not_found,
                    <<Top(r.stack)>> \o acc)
  ELSE IF r.nf = <<>> THEN [r |-> Undefined(r), args |-> acc]
  ELSE PopArguments(
         IF throw_not_found
         THEN throw_renderer_error([r EXCEPT !.stack = Pop(@), !.nf = Pop(@)], x,
                "variable '" \o Top(r.nf).name \o "' not found", Top(r.nf).pos, "")
         ELSE [r EXCEPT !.stack = Pop(@), !.nf = Pop(@)],
         x, n - 1, throw_not_found,
         <<IF x.config.graceful_errors /\ throw_not_found THEN JNull ELSE Nullptr>> \o acc)

\* INJA_OP_TRY_END_GRACEFUL without its graceful branch: the exception goes on
CatchOpRethrow(r, x, op_name, pos, exc) == [r EXCEPT !.exc = exc]

\* INJA_OP_TRY_END_GRACEFUL(op_name), lines 337-351, for the exception exc
\* caught at the function node at pos
CatchOp(r, x, op_name, pos, exc) ==
  IF x.config.graceful_errors
  THEN PushNotFound([r EXCEPT !.exc = NoExc], op_name, pos)
  ELSE throw_renderer_error([r EXCEPT !.exc = NoExc], x,
         "operation '" \o op_name \o "' failed: " \o What(exc), pos, "")

\* a throw_renderer_error(message, node) placed inside INJA_OP_TRY
ErrorInTry(r, x, op_name, pos, message) ==
  IF x.config.graceful_errors
  THEN throw_renderer_error(r, x, message, pos, "")
  ELSE CatchOp(r, x, op_name, pos, RenderError(message, get_source_location(r.content, pos)))

\* Op::Division after "division by zero" was reported (graceful mode goes
\* on to divide), lines 418-426: r1 is the renderer after the report
DivisionAfterReport(r1, x, name, pos, quotient) ==
  IF Halted(r1) THEN r1
  ELSE IF quotient.k = "ok" THEN Push(r1, quotient.v)
  ELSE CatchOp(r1, x, name, pos, StdException(quotient.what))

\* the try block of an operation whose body gave `body`
TryOpResult(r, x, name, pos, body) ==
  CASE body.k = "ok" -> Push(r, body.v)
    [] body.k = "throw" -> CatchOp(r, x, name, pos, StdException(body.what))
    [] body.k = "missing" ->
         IF x.config.graceful_errors THEN PushNotFound(r, body.name, pos)
         ELSE ErrorInTry(r, x, name, pos, body.message)
    [] body.k = "divzero" ->
         DivisionAfterReport(ErrorInTry(r, x, name, pos, "division by zero"), x, name, pos,
                             body.v)
    [] body.k = "ub" -> Undefined(r)

\* what follows get_arguments inside the try block of an operation
TryOpFinish(r, x, node, a) ==
  TryOpResult(r, x, OpName(node.operation), node.pos,
              TryOpBody(node.operation, a, x.data_input))

\* the catch of Op::At's try block, lines 519-525
AtCaught(r, x, pos, what) ==
  IF x.config.graceful_errors THEN PushNotFound(r, "at", pos)
  ELSE [r EXCEPT !.exc = StdException(what)]

\* Op::At on an object, lines 489-499: key is args[1]->get<std::string>()
AtObject(r, x, pos, object, key) ==
  IF key.k # "ok" THEN AtCaught(r, x, pos, key.what)
  ELSE IF key.v \in DOMAIN object.o THEN Push(r, object.o[key.v])
  ELSE IF x.config.graceful_errors THEN PushNotFound(r, key.v, pos)
  ELSE throw_renderer_error(r, x, "key '" \o key.v \o "' not found in object", pos, "")

\* Op::At on an array, lines 500-510: index is args[1]->get<int>()
AtArray(r, x, pos, array, index) ==
  IF index.k # "ok" THEN AtCaught(r, x, pos, index.what)
  ELSE IF index.v >= 0 /\ index.v < Len(array.a) THEN Push(r, array.a[index.v + 1])
  ELSE IF x.config.graceful_errors
       THEN PushNotFound(r, "index[" \o ToString(index.v) \o "]", pos)
  ELSE throw_renderer_error(r, x, "index " \o ToString(index.v) \o " out of bounds", pos, "")

\* Op::At after get_arguments<2>, lines 485-526
AtFinish(r, x, node, a) ==
  IF a[1].t = "obj" THEN AtObject(r, x, node.pos, a[1], GetString(a[2]))
  ELSE IF a[1].t = "arr" THEN AtArray(r, x, node.pos, a[1], GetInt(a[2]))
  ELSE IF x.config.graceful_errors THEN PushNotFound(r, "at", node.pos)
  ELSE throw_renderer_error(r, x, "cannot access element on non-container type",
                            node.pos, "")

\* the wrapped call's result pushed, or its exception thrown
PushCallResult(w) ==
  IF w.result.k = "ok" THEN Push(w.r, w.result.v)
  ELSE [w.r EXCEPT !.exc = StdException(w.result.what)]

\* the call of a callback with evaluated arguments, lines 315-325 and 717-725
CallCallback(r, x, name, callback, args) ==
  PushCallResult(WrappedCall(r, x, name, args, CallbackBody(callback, args), args))

RECURSIVE Visit(_, _, _)
RECURSIVE VisitArguments(_, _, _, _, _)
RECURSIVE VisitNodes(_, _, _, _)
RECURSIVE ForArrayLoop(_, _, _, _, _)
RECURSIVE ForObjectLoop(_, _, _, _, _)
RECURSIVE render_to(_, _, _, _, _)

\* the first loop of get_arguments, lines 216-218: arguments from..to
VisitArguments(arguments, from, to, r, x) ==
  IF from > to \/ Halted(r) THEN r
  ELSE VisitArguments(arguments, from + 1, to, Visit(arguments[from], r, x), x)

\* lines 219-221 and 256-258: fewer values on the stack than arguments
StackChecked(r, x, N, pos) ==
  IF Halted(r) \/ Len(r.stack) >= N THEN r
  ELSE throw_renderer_error(r, x,
         "function needs " \o ToString(N) \o " variables, but has only found "
           \o ToString(Len(r.stack)), pos, "")

\* get_arguments<N, N_start, throw_not_found>(node), lines 211-248, and
\* get_argument_vector (N = all), 250-284
get_arguments(node, N, N_start, throw_not_found, r, x) ==
  PopArguments(StackChecked(VisitArguments(node.arguments, N_start + 1, N_start + N, r, x),
                            x, N, node.pos),
               x, N, throw_not_found, <<>>)

\* throw_renderer_error(message, node, original_text); return nullptr
EvalFails(expression_list, r, x, message, pos) ==
  [r |-> throw_renderer_error(r, x, message, pos, OriginalText(r, x, expression_list)),
   result |-> Nullptr]

\* eval_expression_list reporting a missing variable at the start of the
\* tag instead of at the variable
EvalVisitedAtTag(expression_list, r1, x) ==
  IF Halted(r1) THEN [r |-> r1, result |-> Nullptr]
  ELSE IF Top(r1.stack) # Nullptr
       THEN [r |-> [r1 EXCEPT !.stack = Pop(@)], result |-> Top(r1.stack)]
  ELSE EvalFails(expression_list, [r1 EXCEPT !.stack = Pop(@), !.nf = Pop(@)], x,
                 "variable '" \o Top(r1.nf).name \o "' not found", expression_list.pos)

\* eval_expression_list lines 154-193: r1 is the renderer after the root of
\* the expression was visited
EvalVisited(expression_list, r1, x) ==
  IF Halted(r1) THEN [r |-> r1, result |-> Nullptr]
  ELSE IF r1.stack = <<>>
       THEN EvalFails(expression_list, r1, x, "empty expression", expression_list.pos)
  ELSE IF Len(r1.stack) # 1
       THEN EvalFails(expression_list, r1, x, "malformed expression", expression_list.pos)
  ELSE IF Top(r1.stack) # Nullptr
       THEN [r |-> [r1 EXCEPT !.stack = Pop(@)], result |-> Top(r1.stack)]
  ELSE IF r1.nf = <<>>
       THEN EvalFails(expression_list, [r1 EXCEPT !.stack = Pop(@)], x,
                      "expression could not be evaluated", expression_list.pos)
  ELSE EvalFails(expression_list, [r1 EXCEPT !.stack = Pop(@), !.nf = Pop(@)], x,
                 "variable '" \o Top(r1.nf).name \o "' not found", Top(r1.nf).pos)

\* eval_expression_list, lines 142-194: the renderer afterwards and the
\* result, Nullptr for a null shared_ptr
eval_expression_list(expression_list, r, x) ==
  EvalVisited(expression_list, Visit(expression_list.root, r, x), x)

\* visit(const DataNode&) lines 313-331: the name is no variable
DataAsFunction(node, r, x, function_data) ==
  IF function_data.operation = "Callback"
  THEN CallCallback(r, x, node.name, function_data.callback, <<>>)
  ELSE PushNotFound(r, node.name, node.pos)

\* visit(const DataNode&), lines 306-332
VisitData(node, r, x) ==
  IF Contains(r.additional_data, node.ptr) THEN Push(r, PtrGet(r.additional_data, node.ptr))
  ELSE IF Contains(x.data_input, node.ptr) THEN Push(r, PtrGet(x.data_input, node.ptr))
  ELSE DataAsFunction(node, r, x, find_function(x.function_storage, node.name, 0))

\* Op::Not, lines 355-358, with its argument g
NotOf(g) == IF Halted(g.r) THEN g.r ELSE Push(g.r, JBool(~truthy(g.args[1])))

\* the second operand of && / ||, evaluated when the first did not decide
AndOrSecond(h) == IF Halted(h.r) THEN h.r ELSE Push(h.r, JBool(truthy(h.args[1])))

\* an evaluation that collects both operands before it applies the operator
AndOrOfBoth(node, g, h) ==
  IF Halted(h.r) THEN h.r
  ELSE Push(h.r, JBool(IF node.operation = "Or"
                       THEN truthy(g.args[1]) \/ truthy(h.args[1])
                       ELSE truthy(g.args[1]) /\ truthy(h.args[1])))
AndOrBoth(node, g, x) ==
  IF Halted(g.r) THEN g.r
  ELSE AndOrOfBoth(node, g, get_arguments(node, 1, 1, TRUE, g.r, x))

\* Op::And and Op::Or, lines 359-364, with the first operand g
AndOrFirst(node, g, x) ==
  IF Halted(g.r) THEN g.r
  ELSE IF truthy(g.args[1]) = (node.operation = "Or")
       THEN Push(g.r, JBool(node.operation = "Or"))
  ELSE AndOrSecond(get_arguments(node, 1, 1, TRUE, g.r, x))

\* the operations outside INJA_OP_TRY, with their arguments g
PlainOf(node, g) ==
  IF Halted(g.r) THEN g.r ELSE Push(g.r, PlainOpBody(node.operation, g.args))

\* the operations inside INJA_OP_TRY, with their arguments g
TryOf(node, g, x) ==
  IF g.r.ub THEN g.r
  ELSE IF g.r.exc # NoExc THEN CatchOp(g.r, x, OpName(node.operation), node.pos, g.r.exc)
  ELSE TryOpFinish(g.r, x, node, g.args)

AtOf(node, g, x) == IF Halted(g.r) THEN g.r ELSE AtFinish(g.r, x, node, g.args)

\* Op::AtId lines 458-482: the member named by the not-found record the
\* second argument left is looked up in the container
AtIdLookup(node, container, r2, x) ==
  IF Halted(r2) THEN r2
  ELSE IF r2.nf = <<>> \/ r2.stack = <<>> THEN Undefined(r2)
  ELSE IF container # Nullptr /\ container.t = "obj" /\ Top(r2.nf).name \in DOMAIN container.o
       THEN Push([r2 EXCEPT !.nf = Pop(@), !.stack = Pop(@)], container.o[Top(r2.nf).name])
  ELSE IF x.config.graceful_errors
       THEN [r2 EXCEPT !.stack = Append(Pop(@), Nullptr)]
  ELSE throw_renderer_error([r2 EXCEPT !.nf = Pop(@), !.stack = Pop(@)], x,
         "member '" \o Top(r2.nf).name \o "' not found in container", node.pos, "")

\* Op::AtId lines 454-457: r1 is the renderer after the second argument was
\* visited
AtIdSecond(node, container, r1, x) ==
  AtIdLookup(node, container,
             IF r1.nf = <<>> /\ ~Halted(r1)
             THEN throw_renderer_error(r1, x, "could not find element with given name",
                                       node.pos, "")
             ELSE r1,
             x)

\* Op::AtId, lines 452-483, with the container g
AtIdFirst(node, g, x) == AtIdSecond(node, g.args[1], Visit(node.arguments[2], g.r, x), x)

\* Op::Default, lines 536-539
DefaultSecond(h) == IF Halted(h.r) THEN h.r ELSE Push(h.r, h.args[1])
\* a default that falls back for a null value as it does for a missing one
DefaultFirstOrNull(node, g, x) ==
  IF Halted(g.r) THEN g.r
  ELSE IF g.args[1] # Nullptr /\ g.args[1] # JNull THEN Push(g.r, g.args[1])
  ELSE DefaultSecond(get_arguments(node, 1, 1, TRUE, g.r, x))
DefaultFirst(node, g, x) ==
  IF Halted(g.r) THEN g.r
  ELSE IF g.args[1] # Nullptr THEN Push(g.r, g.args[1])
  ELSE DefaultSecond(get_arguments(node, 1, 1, TRUE, g.r, x))

\* Op::Callback lines 711-725, with the argument vector g
CallbackOf(node, g, x) ==
  IF Halted(g.r) THEN g.r ELSE CallCallback(g.r, x, node.name, node.callback, g.args)

\* a super() that raises the error of line 734 in graceful mode too
SuperLevelRaising(node, g, level_diff, x) ==
  IF level_diff.k # "ok" THEN [g.r EXCEPT !.exc = StdException(level_diff.what)]
  ELSE [g.r EXCEPT !.exc = RenderError("super() call is not within a block",
                                       get_source_location(g.r.content, node.pos))]

\* Op::Super lines 737-742 with an empty block_statement_stack, r1 the
\* renderer after line 734: the level is checked against the template stack
\* and line 742 reads back() of the empty stack
SuperOutsideBlock(node, r1, level, x) ==
  IF Halted(r1) THEN r1
  ELSE Undefined(
         IF level < 1 \/ level > Len(r1.template_stack) - 1
         THEN throw_renderer_error(r1, x,
                "level of super() call does not match parent templates (between 1 and "
                  \o Dump(JInt(Len(r1.template_stack) - 1)) \o ")", node.pos, "")
         ELSE r1)

\* lines 749-751, r2 the renderer after the parent's block: level and
\* template come back, and line 755 makes the null result
SuperLeave(r2, old_level, old_content) ==
  IF Halted(r2) THEN r2
  ELSE Push([r2 EXCEPT !.current_level = old_level, !.content = old_content], JNull)

\* lines 742-755 inside a block, r1 the renderer after the check of the
\* level: template_stack.at(level) throws std::out_of_range past the stack
SuperBlock(node, r1, level, x) ==
  IF Halted(r1) THEN r1
  ELSE IF level < 0 \/ level >= Len(r1.template_stack)
  THEN [r1 EXCEPT !.exc = StdException("vector::_M_range_check")]
  ELSE LET new_template == r1.template_stack[level + 1]
           name == r1.block_statement_stack[Len(r1.block_statement_stack)]
       IN IF name \in DOMAIN new_template.block_storage
          THEN SuperLeave(Visit(new_template.block_storage[name].block,
                                [r1 EXCEPT !.content = new_template.content,
                                           !.current_level = level], x),
                          r1.current_level, r1.content)
          ELSE SuperLeave(throw_renderer_error(r1, x,
                            "could not find block with name '" \o name \o "'", node.pos, ""),
                          r1.current_level, r1.content)

\* lines 738-755 inside a block: the level is checked against the stack
SuperInBlock(node, r, level, x) ==
  SuperBlock(node,
             IF level < 1 \/ level > Len(r.template_stack) - 1
             THEN throw_renderer_error(r, x,
                    "level of super() call does not match parent templates (between 1 and "
                      \o Dump(JInt(Len(r.template_stack) - 1)) \o ")", node.pos, "")
             ELSE r,
             level, x)

\* Op::Super lines 729-736: outside every block line 734 reports
SuperLevel(node, g, level_diff, x) ==
  IF level_diff.k # "ok" THEN [g.r EXCEPT !.exc = StdException(level_diff.what)]
  ELSE IF g.r.block_statement_stack # <<>>
  THEN SuperInBlock(node, g.r, g.r.current_level + level_diff.v, x)
  ELSE SuperOutsideBlock(node,
         throw_renderer_error(g.r, x, "super() call is not within a block", node.pos, ""),
         level_diff.v, x)

\* Op::Super, with the argument vector g
SuperOf(node, g, x) ==
  IF Halted(g.r) THEN g.r
  ELSE SuperLevel(node, g, IF Len(g.args) = 1 THEN GetInt(g.args[1]) ELSE Ok(1), x)

\* visit(const FunctionNode&), lines 353-784
VisitFunction(node, r, x) ==
  CASE node.operation = "Not" -> NotOf(get_arguments(node, 1, 0, TRUE, r, x))
    [] node.operation \in {"And", "Or"} ->
         AndOrFirst(node, get_arguments(node, 1, 0, TRUE, r, x), x)
    [] node.operation \in PlainOps ->
         PlainOf(node, get_arguments(node, OpArity(node.operation), 0, TRUE, r, x))
    [] node.operation \in TryOps ->
         TryOf(node, get_arguments(node, OpArity(node.operation), 0, TRUE, r, x), x)
    [] node.operation = "At" -> AtOf(node, get_arguments(node, 2, 0, TRUE, r, x), x)
    [] node.operation = "AtId" -> AtIdFirst(node, get_arguments(node, 1, 0, FALSE, r, x), x)
    [] node.operation = "Default" ->
         DefaultFirst(node, get_arguments(node, 1, 0, FALSE, r, x), x)
    [] node.operation = "Callback" ->
         IF node.callback = NoCallback
         THEN IF x.config.graceful_errors THEN PushNotFound(r, node.name, node.pos)
              ELSE throw_renderer_error(r, x,
                     "function '" \o node.name \o "' not found or has no callback",
                     node.pos, "")
         ELSE CallbackOf(node, get_arguments(node, Len(node.arguments), 0, TRUE, r, x), x)
    [] node.operation = "Super" ->
         SuperOf(node, get_arguments(node, Len(node.arguments), 0, TRUE, r, x), x)
    [] node.operation = "None" ->
         IF x.config.graceful_errors THEN PushNotFound(r, node.name, node.pos) ELSE r

\* visit(const ExpressionListNode&) without lines 789-793: an unresolved
\* expression writes nothing
PrintResultNoEcho(node, e, x) ==
  IF Halted(e.r) THEN e.r
  ELSE IF e.result # Nullptr THEN print_data(e.r, x, e.result)
  ELSE e.r

\* visit(const ExpressionListNode&) lines 788-793, with the result e
PrintResult(node, e, x) ==
  IF Halted(e.r) THEN e.r
  ELSE IF e.result # Nullptr THEN print_data(e.r, x, e.result)
  ELSE IF x.config.graceful_errors /\ node.length > 0
       THEN [e.r EXCEPT !.out = @ \o Substr(e.r.content, node.pos, node.length)]
  ELSE e.r

\* visit(const ExpressionListNode&), lines 786-794
VisitExpressionList(node, r, x) == PrintResult(node, eval_expression_list(node, r, x), x)

\* an if statement that renders neither branch when its condition could
\* not be evaluated
IfBranchNeither(node, e, x) ==
  IF Halted(e.r) THEN e.r
  ELSE IF e.result = Nullptr THEN e.r
  ELSE IF truthy(e.result) THEN Visit(node.true_statement, e.r, x)
  ELSE IF node.has_false_statement THEN Visit(node.false_statement, e.r, x)
  ELSE e.r

\* visit(const IfStatementNode&) lines 902-907, with the condition's result e
IfBranch(node, e, x) ==
  IF Halted(e.r) THEN e.r
  ELSE IF e.result # Nullptr /\ truthy(e.result) THEN Visit(node.true_statement, e.r, x)
  ELSE IF node.has_false_statement THEN Visit(node.false_statement, e.r, x)
  ELSE e.r

\* visit(const IfStatementNode&), lines 900-908
VisitIf(node, r, x) == IfBranch(node, eval_expression_list(node.condition, r, x), x)

LoopData(r) == IF "loop" \in DOMAIN r.additional_data.o THEN r.additional_data.o["loop"] ELSE JNull
SetLoopData(r, loop) == [r EXCEPT !.additional_data = SetKey(@, "loop", loop)]

\* lines 826-833: the loop data of iteration index
SetKeyIf(cond, j, key, v) == IF cond THEN SetKey(j, key, v) ELSE j
\* the same with is_last set one iteration late
IterationDataLate(loop, index, size) ==
  SetKeyIf(index = size,
           SetKeyIf(index = 1,
                    SetKey(SetKey(loop, "index", JInt(index)), "index1", JInt(index + 1)),
                    "is_first", JBool(FALSE)),
           "is_last", JBool(TRUE))
IterationData(loop, index, size) ==
  SetKeyIf(index = size - 1,
           SetKeyIf(index = 1,
                    SetKey(SetKey(loop, "index", JInt(index)), "index1", JInt(index + 1)),
                    "is_first", JBool(FALSE)),
           "is_last", JBool(TRUE))

\* the body of the for statement of lines 823-837, from iteration `index`
ForArrayLoop(node, result, index, r, x) ==
  IF index >= Len(Elements(result)) \/ Halted(r) THEN [r |-> r, index |-> index]
  ELSE ForArrayLoop(node, result, index + 1,
         Visit(node.body,
               [r EXCEPT !.additional_data =
                  SetKey(SetKey(@, node.value, Elements(result)[index + 1]), "loop",
                         IterationData(LoopData(r), index, Size(result)))],
               x),
         x)

\* lines 814-822: the enclosing loop's data moves under "parent", and the
\* first/last flags are set
LoopDataAtEntry(loop, size) ==
  SetKey(SetKey(IF ~Empty(loop) THEN SetKey(loop, "parent", loop) ELSE loop,
                "is_first", JBool(TRUE)),
         "is_last", JBool(size <= 1))

\* lines 840-846: the enclosing loop's data comes back
RestoredLoopData(loop) ==
  IF loop.t = "obj" /\ "parent" \in DOMAIN loop.o /\ ~Empty(loop.o["parent"])
  THEN loop.o["parent"]
  ELSE IF loop.t = "obj" /\ "parent" \in DOMAIN loop.o THEN loop
  ELSE SetKey(loop, "parent", JNull)

\* lines 839-846, after the last iteration
ForArrayLeave(node, r) ==
  [r EXCEPT !.additional_data =
     SetKey(SetKey(@, node.value,
                   IF node.value \in DOMAIN @.o THEN ClearValue(@.o[node.value]) ELSE JNull),
            "loop", RestoredLoopData(LoopData(r)))]

\* lines 839-848, with the renderer and index the iterations left
ForArrayEnd(node, looped, x) ==
  IF Halted(looped.r) THEN looped.r
  ELSE emit_event(ForArrayLeave(node, looped.r), x, "ForLoopEnd", node.value, "array",
                  looped.index)

\* lines 814-837, r the renderer after ForLoopStart was emitted
ForArrayEnter(node, result, r, x) ==
  ForArrayEnd(node,
              ForArrayLoop(node, result, 0,
                           SetLoopData(r, LoopDataAtEntry(LoopData(r), Size(result))), x),
              x)

\* lines 809-812, r the renderer after the checks of the result
ForArrayStart(node, result, r, x) ==
  IF Halted(r) THEN r
  ELSE ForArrayEnter(node, result,
                     emit_event(r, x, "ForLoopStart", node.value, "array", Size(result)), x)

\* a for statement that runs its body once, on null, when the collection
\* could not be evaluated in graceful mode
ForArrayCheckedOnce(node, e, x) ==
  IF Halted(e.r) THEN e.r
  ELSE IF e.result = Nullptr
       THEN IF x.config.graceful_errors THEN ForArrayStart(node, JArr(<<JNull>>), e.r, x)
            ELSE throw_renderer_error(e.r, x, "expression could not be evaluated", node.pos, "")
  ELSE ForArrayStart(node, e.result,
                     IF e.result.t # "arr"
                     THEN throw_renderer_error(e.r, x, "object must be an array", node.pos, "")
                     ELSE e.r,
                     x)

\* lines 802-811, with the result e of the loop's expression
ForArrayChecked(node, e, x) ==
  IF Halted(e.r) THEN e.r
  ELSE IF e.result = Nullptr
       THEN IF x.config.graceful_errors THEN e.r
            ELSE throw_renderer_error(e.r, x, "expression could not be evaluated", node.pos, "")
  ELSE ForArrayStart(node, e.result,
                     IF e.result.t # "arr"
                     THEN throw_renderer_error(e.r, x, "object must be an array", node.pos, "")
                     ELSE e.r,
                     x)

\* visit(const ForArrayStatementNode&), lines 800-848
VisitForArray(node, r, x) ==
  ForArrayChecked(node, eval_expression_list(node.condition, r, x), x)

\* lines 875-876: it.key() of an iterator over a value that is no object
KeyOfNonObject ==
  StdException("[json.exception.invalid_iterator.207] cannot use key() for non-object iterators")

\* the body of the for statement of lines 874-888, from iteration `index`:
\* the members in the order of their keys
ForObjectLoop(node, result, index, r, x) ==
  IF index >= Len(Elements(result)) \/ Halted(r) THEN [r |-> r, index |-> index]
  ELSE IF result.t # "obj" THEN [r |-> [r EXCEPT !.exc = KeyOfNonObject], index |-> index]
  ELSE ForObjectLoop(node, result, index + 1,
         Visit(node.body,
               [r EXCEPT !.additional_data =
                  SetKey(SetKey(SetKey(@, node.key, JStr(ObjectKeys(result)[index + 1])),
                                node.value, Elements(result)[index + 1]),
                         "loop", IterationData(LoopData(r), index, Size(result)))],
               x),
         x)

\* lines 890-897, after the last iteration
ForObjectLeave(node, r) ==
  [r EXCEPT !.additional_data =
     SetKey(SetKey(SetKey(@, node.key,
                          IF node.key \in DOMAIN @.o THEN ClearValue(@.o[node.key]) ELSE JNull),
                   node.value,
                   IF node.value \in DOMAIN @.o /\ node.value # node.key
                   THEN ClearValue(@.o[node.value]) ELSE JNull),
            "loop", RestoredLoopData(LoopData(r)))]

\* lines 890-899, with the renderer and index the iterations left
ForObjectEnd(node, looped, x) ==
  IF Halted(looped.r) THEN looped.r
  ELSE emit_event(ForObjectLeave(node, looped.r), x, "ForLoopEnd", node.value, "object",
                  looped.index)

\* lines 861-888, r the renderer after the checks of the result.  Line 866
\* assigns the moved loop data to its own member "parent": the right operand
\* is evaluated first, so the member holds the enclosing loop's data, as
\* after line 816
ForObjectStart(node, result, r, x) ==
  IF Halted(r) THEN r
  ELSE ForObjectEnd(node,
         ForObjectLoop(node, result, 0,
           SetLoopData(emit_event(r, x, "ForLoopStart", node.value, "object", Size(result)),
                       LoopDataAtEntry(LoopData(r), Size(result))),
           x),
         x)

\* lines 851-860, with the result e of the loop's expression
ForObjectChecked(node, e, x) ==
  IF Halted(e.r) THEN e.r
  ELSE IF e.result = Nullptr
       THEN IF x.config.graceful_errors THEN e.r
            ELSE throw_renderer_error(e.r, x, "expression could not be evaluated", node.pos, "")
  ELSE ForObjectStart(node, e.result,
                      IF e.result.t # "obj"
                      THEN throw_renderer_error(e.r, x, "object must be an object", node.pos, "")
                      ELSE e.r,
                      x)

\* visit(const ForObjectStatementNode&), lines 850-898
VisitForObject(node, r, x) ==
  ForObjectChecked(node, eval_expression_list(node.condition, r, x), x)

\* an include whose renderer worked on the including renderer's additional
\* data itself, not on a copy of it
IncludeRenderedShared(node, r, sub, x) ==
  IF Halted(sub) THEN [r EXCEPT !.out = sub.out, !.events = sub.events, !.traces = sub.traces,
                                !.cache = sub.cache, !.exc = sub.exc, !.ub = sub.ub,
                                !.recovered = sub.recovered, !.executed = sub.executed,
                                !.inplaced = sub.inplaced]
  ELSE emit_event([r EXCEPT !.out = sub.out, !.events = sub.events, !.traces = sub.traces,
                            !.cache = sub.cache, !.recovered = sub.recovered,
                            !.executed = sub.executed, !.inplaced = sub.inplaced,
                            !.additional_data = sub.additional_data],
                  x, "IncludeEnd", node.file, "success", 0)

\* line 918: what the sub-renderer wrote, emitted and raised reaches the
\* including renderer; its render_errors go with it when it is destroyed
IncludeRendered(node, r, sub, x) ==
  IF Halted(sub) THEN [r EXCEPT !.out = sub.out, !.events = sub.events, !.traces = sub.traces,
                                !.cache = sub.cache, !.exc = sub.exc, !.ub = sub.ub,
                                !.recovered = sub.recovered, !.executed = sub.executed,
                                !.inplaced = sub.inplaced]
  ELSE emit_event([r EXCEPT !.out = sub.out, !.events = sub.events, !.traces = sub.traces,
                            !.cache = sub.cache, !.recovered = sub.recovered,
                            !.executed = sub.executed, !.inplaced = sub.inplaced],
                  x, "IncludeEnd", node.file, "success", 0)

\* lines 913-923, r the renderer after IncludeStart was emitted
IncludeStarted(node, r, x) ==
  IF node.file \in DOMAIN x.template_storage
  THEN IncludeRendered(node, r,
         render_to([NewRenderer(r.out, r.events, r.traces, r.cache)
                      EXCEPT !.recovered = r.recovered, !.executed = r.executed,
                             !.inplaced = r.inplaced], x,
                   x.template_storage[node.file], TRUE, r.additional_data),
         x)
  ELSE IF x.config.throw_at_missing_includes
  THEN throw_renderer_error(emit_event(r, x, "IncludeEnd", node.file, "not_found", 0), x,
                            "include '" \o node.file \o "' not found", node.pos, "")
  ELSE emit_event(r, x, "IncludeEnd", node.file, "not_found_ignored", 0)

\* visit(const IncludeStatementNode&), lines 910-924
VisitInclude(node, r, x) ==
  IncludeStarted(node, emit_event(r, x, "IncludeStart", node.file, "", 0), x)

\* visit(const TextNode&), lines 296-298: node.length characters of the
\* current template's content from node.pos; a span that leaves the content
\* reads memory that is not the template's text
VisitText(node, r) ==
  IF node.pos + node.length <= Len(r.content)
  THEN [r EXCEPT !.out = @ \o Substr(r.content, node.pos, node.length)]
  ELSE Undefined(r)

\* lines 946-948, r1 the renderer after the block's body: the level comes
\* back, the current template becomes the last of the template stack
BlockLeave(r1, old_level) ==
  IF Halted(r1) THEN r1
  ELSE [r1 EXCEPT !.current_level = old_level,
                  !.content = r1.template_stack[Len(r1.template_stack)].content]

\* lines 943-945: the body of the block found in the first template of the
\* stack, between the push and the pop of block_statement_stack
BlockBody(node, block, r, x) ==
  LET r1 == Visit(block, [r EXCEPT !.block_statement_stack = Append(@, node.name)], x)
  IN IF Halted(r1) THEN r1
     ELSE [r1 EXCEPT !.block_statement_stack = SubSeq(@, 1, Len(@) - 1)]

\* visit(const BlockStatementNode&), lines 937-949
VisitBlockStatement(node, r, x) ==
  LET front == r.template_stack[1]
      r0 == [r EXCEPT !.current_level = 0, !.content = front.content]
  IN BlockLeave(IF node.name \in DOMAIN front.block_storage
                THEN BlockBody(node, front.block_storage[node.name].block, r0, x)
                ELSE r0,
                r.current_level)

\* line 931, after the parent template was rendered
ExtendsRendered(r) == IF Halted(r) THEN r ELSE [r EXCEPT !.break_rendering = TRUE]

\* visit(const ExtendsStatementNode&), lines 926-935
VisitExtends(node, r, x) ==
  IF node.file \in DOMAIN x.template_storage
  THEN ExtendsRendered(render_to(r, x, x.template_storage[node.file], TRUE, r.additional_data))
  ELSE IF x.config.throw_at_missing_includes
  THEN throw_renderer_error(r, x, "extends '" \o node.file \o "' not found", node.pos, "")
  ELSE r

\* the value the wrapped in-place thunk returns, line 1027
InplacePlaceholder(target) ==
  JObj([k \in {"_inplace", "size"} |->
         IF k = "_inplace" THEN JBool(TRUE)
         ELSE JInt(IF target.t = "arr" THEN Len(target.a) ELSE 0)])

RECURSIVE RemainingArguments(_, _, _, _, _)
\* lines 1009-1010: the argument visited into r1 is taken off the stack
RemainingPopped(arguments, i, r1, x, acc) ==
  IF Halted(r1) THEN [r |-> r1, args |-> acc]
  ELSE IF r1.stack = <<>> THEN [r |-> Undefined(r1), args |-> acc]
  ELSE RemainingArguments(arguments, i + 1, [r1 EXCEPT !.stack = Pop(@)], x,
                          Append(acc, Top(r1.stack)))

\* lines 1007-1011: each further argument is evaluated and taken off the stack
RemainingArguments(arguments, i, r, x, acc) ==
  IF i > Len(arguments) \/ Halted(r) THEN [r |-> r, args |-> acc]
  ELSE RemainingPopped(arguments, i, Visit(arguments[i], r, x), x, acc)

\* lines 1033-1039: r1 is the renderer after the call
InplaceUsed(node, ptr, r1, x) ==
  [r |-> emit_event(r1, x, "InplaceOptUsed", node.key, node.expression.root.name,
                    IF PtrGet(r1.additional_data, ptr).t = "arr"
                    THEN Len(PtrGet(r1.additional_data, ptr).a) ELSE 0),
   used |-> TRUE]

\* lines 1014-1039: w is what the wrapper (or the bare thunk) did, body
\* what the in-place callback does to the target when it runs
InplaceCalled(node, ptr, remaining_args, body, w, x) ==
  \* the in-place callback ran and dereferenced a null argument
  IF w.invoked /\ body = UndefinedCall
  THEN [r |-> Undefined(w.r), used |-> FALSE]
  ELSE IF w.result.k # "ok"
  THEN [r |-> [w.r EXCEPT !.exc = StdException(w.result.what)], used |-> FALSE]
  ELSE InplaceUsed(node, ptr,
                   IF w.invoked /\ body.k = "ok"
                   THEN [w.r EXCEPT !.additional_data = PtrSet(@, ptr, body.v)]
                   ELSE w.r,
                   x)

\* line 1025 or 1030: the thunk has run func_data.inplace_callback
InplaceExecuted(w, name) ==
  IF w.invoked THEN [w EXCEPT !.r.inplaced = Append(@, name)] ELSE w

\* lines 1014-1031: the thunk runs the in-place callback on the target and
\* returns the placeholder; the wrapper, if any, decides whether it runs
InplaceCall(node, ptr, target, rem, body, x) ==
  InplaceCalled(node, ptr, rem.args, body,
                InplaceExecuted(
                WrappedCall(rem.r, x, node.expression.root.name, <<target>> \o rem.args,
                            IF body.k = "ok" THEN Ok(InplacePlaceholder(body.v)) ELSE body,
                            <<IF body.k = "ok" THEN body.v ELSE target>> \o rem.args),
                  node.expression.root.name),
                x)

\* lines 1004-1012, with the remaining arguments rem
InplaceWithArguments(node, ptr, func_data, target, rem, x) ==
  IF Halted(rem.r) THEN [r |-> rem.r, used |-> FALSE]
  ELSE InplaceCall(node, ptr, target, rem,
                   IF /\ Dereferences(func_data.inplace_callback)
                      /\ \E i \in 1..Len(rem.args) : rem.args[i] = Nullptr
                   THEN UndefinedCall
                   ELSE InplaceBody(func_data.inplace_callback, target, rem.args), x)

\* lines 984-1003 without the check of lines 995-1000: a variable that is
\* only in the input data is taken as the target
InplaceResolvedFromInput(node, ptr, func_data, r, x) ==
  IF func_data.operation # "Callback" \/ func_data.inplace_callback = NoCallback
  THEN [r |-> emit_event(r, x, "InplaceOptSkipped", node.key,
                         "no_inplace_cb:" \o node.expression.root.name, 0),
        used |-> FALSE]
  ELSE IF ~Contains(r.additional_data, ptr) /\ ~Contains(x.data_input, ptr)
  THEN [r |-> emit_event(r, x, "InplaceOptSkipped", node.key,
                         "var_not_exists:" \o node.expression.root.name, 0),
        used |-> FALSE]
  ELSE InplaceWithArguments(node, ptr, func_data,
                            IF Contains(r.additional_data, ptr)
                            THEN PtrGet(r.additional_data, ptr) ELSE PtrGet(x.data_input, ptr),
                            RemainingArguments(node.expression.root.arguments, 2, r, x, <<>>),
                            x)

\* lines 984-1003, with the function the name and arity resolve to
InplaceResolved(node, ptr, func_data, r, x) ==
  IF func_data.operation # "Callback" \/ func_data.inplace_callback = NoCallback
  THEN [r |-> emit_event(r, x, "InplaceOptSkipped", node.key,
                         "no_inplace_cb:" \o node.expression.root.name, 0),
        used |-> FALSE]
  ELSE IF ~Contains(r.additional_data, ptr)
  THEN [r |-> emit_event(r, x, "InplaceOptSkipped", node.key,
                         "var_not_exists:" \o node.expression.root.name, 0),
        used |-> FALSE]
  ELSE InplaceWithArguments(node, ptr, func_data, PtrGet(r.additional_data, ptr),
                            RemainingArguments(node.expression.root.arguments, 2, r, x, <<>>),
                            x)

\* try_inplace_self_assignment, lines 961-1040
try_inplace_self_assignment(node, ptr, r, x) ==
  IF node.expression.root.k # "Function" THEN [r |-> r, used |-> FALSE]
  ELSE IF node.expression.root.operation # "Callback" THEN [r |-> r, used |-> FALSE]
  ELSE IF node.expression.root.arguments = <<>> THEN [r |-> r, used |-> FALSE]
  ELSE IF node.expression.root.arguments[1].k # "Data" THEN [r |-> r, used |-> FALSE]
  ELSE IF node.expression.root.arguments[1].name # node.key THEN [r |-> r, used |-> FALSE]
  ELSE InplaceResolved(node, ptr,
                       find_function(x.function_storage, node.expression.root.name,
                                     Len(node.expression.root.arguments)),
                       r, x)

\* additional_data[json_pointer(ptr)] = value inside the try block of the
\* set statement; an unresolvable pointer throws
AssignVariable(r, ptr, value) ==
  IF PtrSettable(r.additional_data, ptr)
  THEN [r EXCEPT !.additional_data = PtrSet(@, ptr, value)]
  ELSE [r EXCEPT !.exc = StdException("[json.exception.out_of_range.404] unresolved reference token")]

\* the assignment a and the SetStatementEnd event that follows it
SetAssigned(node, a, x, detail) ==
  IF Halted(a) THEN a ELSE emit_event(a, x, "SetStatementEnd", node.key, detail, 0)

\* a set statement that leaves the variable unbound when its expression
\* fails in graceful mode
SetEvaluatedUnbound(node, ptr, e, x) ==
  IF Halted(e.r) THEN e.r
  ELSE IF e.result # Nullptr
  THEN SetAssigned(node, AssignVariable(e.r, ptr, e.result), x, "copy")
  ELSE IF x.config.graceful_errors
  THEN SetAssigned(node, e.r, x, "null_graceful")
  ELSE throw_renderer_error(e.r, x,
         "failed to evaluate expression for variable '" \o node.key \o "'", node.pos, "")

\* lines 1054-1067: the expression was evaluated to e
SetEvaluated(node, ptr, e, x) ==
  IF Halted(e.r) THEN e.r
  ELSE IF e.result # Nullptr
  THEN SetAssigned(node, AssignVariable(e.r, ptr, e.result), x, "copy")
  ELSE IF x.config.graceful_errors
  THEN SetAssigned(node, AssignVariable(e.r, ptr, JNull), x, "null_graceful")
  ELSE throw_renderer_error(e.r, x,
         "failed to evaluate expression for variable '" \o node.key \o "'", node.pos, "")

\* lines 1047-1067: the try block after the in-place attempt t
SetTried(node, ptr, t, x) ==
  IF Halted(t.r) THEN t.r
  ELSE IF t.used THEN emit_event(t.r, x, "SetStatementEnd", node.key, "inplace", 0)
  ELSE SetEvaluated(node, ptr, eval_expression_list(node.expression, t.r, x), x)

\* lines 1068-1084: the catch clauses, tried the renderer the try block left
SetCaught(node, ptr, tried, x) ==
  IF tried.ub \/ tried.exc = NoExc THEN tried
  ELSE IF x.config.graceful_errors
  THEN SetAssigned(node, AssignVariable([tried EXCEPT !.exc = NoExc], ptr, JNull), x,
                   "exception_graceful")
  ELSE throw_renderer_error([tried EXCEPT !.exc = NoExc], x,
         "failed to set variable '" \o node.key \o "': " \o What(tried.exc), node.pos, "")

\* visit(const SetStatementNode&), lines 1042-1085
VisitSet(node, r, x) ==
  SetCaught(node, convert_dot_to_ptr(node.key),
            SetTried(node, convert_dot_to_ptr(node.key),
                     try_inplace_self_assignment(node, convert_dot_to_ptr(node.key),
                       emit_event(r, x, "SetStatementStart", node.key, "", 0), x),
                     x),
            x)

\* visit(const BlockNode&), lines 286-294: r1 is the renderer after node i
VisitedNode(nodes, i, r1, x) ==
  IF r1.break_rendering THEN r1 ELSE VisitNodes(nodes, i + 1, r1, x)

\* visit(const BlockNode&), lines 286-294, from node i
VisitNodes(nodes, i, r, x) ==
  IF i > Len(nodes) \/ Halted(r) THEN r
  ELSE VisitedNode(nodes, i, Visit(nodes[i], r, x), x)

\* NodeVisitor dispatch: node.accept(*this)
Visit(node, r, x) ==
  IF Halted(r) THEN r
  ELSE CASE node.k = "Block" -> VisitNodes(node.nodes, 1, r, x)
         [] node.k = "Text" -> VisitText(node, r)
         [] node.k = "BlockStatement" -> VisitBlockStatement(node, r, x)
         [] node.k = "Literal" -> Push(r, node.value)
         [] node.k = "Data" -> VisitData(node, r, x)
         [] node.k = "Function" -> VisitFunction(node, r, x)
         [] node.k = "ExpressionList" -> VisitExpressionList(node, r, x)
         [] node.k = "Set" -> VisitSet(node, r, x)
         [] node.k = "If" -> VisitIf(node, r, x)
         [] node.k = "ForArray" -> VisitForArray(node, r, x)
         [] node.k = "ForObject" -> VisitForObject(node, r, x)
         [] node.k = "Include" -> VisitInclude(node, r, x)
         [] node.k = "Extends" -> VisitExtends(node, r, x)

\* render_to lines 1096-1106, up to the visit of the root
render_to_begin(r, x, tmpl, has_loop_data, loop_data) ==
  emit_event([r EXCEPT !.content = tmpl.content,
                       !.additional_data =
                         IF has_loop_data
                         THEN (IF "loop" \in DOMAIN loop_data.o THEN loop_data
                               ELSE SetKey(loop_data, "loop", JNull))
                         ELSE @,
                       !.template_stack =
                         Append(@, [content |-> tmpl.content,
                                    block_storage |-> tmpl.block_storage])],
             x, "RenderStart", "", "", 0)

\* lines 1108-1112, r1 the renderer after the root was visited
render_to_end(r1, x) ==
  IF Halted(r1) THEN r1 ELSE emit_event(r1, x, "RenderEnd", "", "", 0)

\* Renderer::render_to, lines 1095-1113
render_to(r, x, tmpl, has_loop_data, loop_data) ==
  render_to_end(Visit(tmpl.root, render_to_begin(r, x, tmpl, has_loop_data, loop_data), x), x)


\* ---------------------------------------------------------------------------
\* Environment::render (environment.hpp) driving the Renderer, one thread
\* rendering while another may change the configuration
\* ---------------------------------------------------------------------------

RenderThread == "e1"

\* the environment's function storage: the built-ins, array_functions' append
\* with its in-place variant, two callbacks without one, the void
\* callback log, and the user's push with an in-place variant
RenderFunctionStorage ==
  storage_add_callback(
    add_void_callback(
      storage_add_callback(
        storage_add_callback(ArrayFunctionStorage, "twice", 1, "twice", NoCallback),
        "answer", 0, "answer", NoCallback),
      "log", 1, "log"),
    "push", 2, "push", "push_inplace")

\* RenderConfig's member initialisers, config.hpp 149-186
DefaultRenderConfig ==
  [graceful_errors |-> FALSE, throw_at_missing_includes |-> TRUE, html_autoescape |-> FALSE,
   callback_wrapper |-> "none", instrumentation |-> FALSE]

\* the configurations the renders run under: an instrumentation callback
\* that records the events (set_instrumentation_callback), strict or graceful
\* (set_graceful_errors), and no wrapper, a tracing wrapper
\* (set_callback_wrapper) or the caching wrapper (set_callback_cache)
RenderConfigs ==
  { [DefaultRenderConfig EXCEPT !.graceful_errors = g, !.callback_wrapper = w,
                                !.instrumentation = TRUE] :
      g \in BOOLEAN, w \in {"none", "tracing", "caching"} }

bad == Var("bad")
One == Lit(JInt(1))

\* the template "inc" the environment has stored
IncludedItems == <<ExprItem(bad), TextItem(".")>>
\* the template "base", which calls super() outside every block
BaseItems == <<TextItem("c"), ExprItem(Call("super", <<>>))>>
\* the template "layout" with one block, and "page", the same with text
\* behind it
LayoutItems == <<TextItem("["), BlockItem("body", <<TextItem("base")>>), TextItem("]")>>
PageFooter == " -- the page ends after a long footer: abcdefghijklmnopqrstuvwxyz --"
PageItems == LayoutItems \o <<TextItem(PageFooter)>>
\* the template "part": it binds y, prints x, binds x anew, prints x and y
PartItems ==
  <<SetItem("y", Lit(JInt(5))), ExprItem(Var("x")), SetItem("x", Lit(JInt(2))),
    ExprItem(Var("x")), ExprItem(Var("y"))>>
StoredItems ==
  [n \in {"inc", "base", "layout", "page", "part"} |->
     CASE n = "inc" -> IncludedItems
       [] n = "part" -> PartItems
       [] n = "base" -> BaseItems
       [] n = "layout" -> LayoutItems
       [] n = "page" -> PageItems]
RenderTemplateStorage ==
  [n \in DOMAIN StoredItems |-> Template(StoredItems[n], RenderFunctionStorage)]

AppendTo(name) == Call("append", <<Var(name), Lit(JInt(4))>>)

\* two calls of the void callback with the same argument
LogItems == <<ExprItem(Call("log", <<One>>)), TextItem("-"), ExprItem(Call("log", <<One>>))>>

\* the templates rendered, as written
ClaimItems ==
  << <<SetItem("xs", AppendTo("xs")), ExprItem(Var("xs"))>>,
     <<SetItem("ys", Var("xs")), SetItem("ys", AppendTo("ys")), SetItem("ys", AppendTo("ys")),
       ExprItem(Var("ys"))>>,
     <<SetItem("ys", Var("xs")), SetItem("ys", AppendTo("ys")), ExprItem(AppendTo("ys"))>>,
     <<ExprItem(Call("twice", <<Var("n")>>)), TextItem(" "), ExprItem(AppendTo("xs"))>>,
     <<ExprItem(Var("good.bad"))>>,
     <<TextItem("a "), ExprItem(Var("good.bad")), TextItem(" b "), ExprItem(Var("good.a"))>>,
     <<ExprItem(bad), TextItem("!"), ExprItem(Var("good.bad.bad"))>>,
     <<ExprItem(Var("u.k")), ExprItem(Var("xs.k")), ExprItem(Var("s.k")),
       ExprItem(Var("good.a.k")), ExprItem(Var("b.k")), TextItem("|"), ExprItem(Var("s"))>>,
     <<ForItem("v", Var("users"), <<ExprItem(Var("v.name")), TextItem(";")>>)>>,
     <<TextItem("x"), IncludeItem("inc"), TextItem("y")>>,
     <<ExtendsItem("inc"), TextItem("z")>>,
     <<ExprItem(Bin("+", "Add", bad, One)), ExprItem(Pipe("upper", <<bad>>))>>,
     LogItems >>

\* the data given to the renders
RenderData ==
  { JObj([xs |-> JArr(<<JInt(1), JInt(2), JInt(3)>>),
          good |-> JObj([a |-> JInt(1)]),
          users |-> JArr(<<JObj([name |-> JStr("ann")]), JObj([n |-> JInt(1)]),
                           JObj([name |-> JStr("bob")])>>),
          s |-> JStr("hi"), n |-> JInt(3), u |-> JNull, b |-> JBool(TRUE)]),
    JObj([xs |-> JArr(<<JInt(1), JInt(2), JInt(3), JInt(4)>>), n |-> JInt(3)]) }


Two == Lit(JInt(2))

\* a missing member on its own, and every built-in operator and filter
\* applied to the missing variable `bad`
OpExpressions ==
  << Var("good.bad"),
     Bin("+", "Add", bad, One), Bin("+", "Add", One, bad),
     Bin("-", "Subtract", bad, One), Bin("*", "Multiplication", bad, Two),
     Bin("/", "Division", bad, Two), Bin("/", "Division", Two, bad),
     Bin("^", "Power", bad, Two), Bin("%", "Modulo", bad, Two), Bin("%", "Modulo", Two, bad),
     Bin("==", "Equal", bad, One), Bin("!=", "NotEqual", bad, One),
     Bin(">", "Greater", bad, One), Bin(">=", "GreaterEqual", bad, One),
     Bin("<", "Less", bad, One), Bin("<=", "LessEqual", One, bad),
     Bin("in", "In", bad, Var("xs")), Bin("in", "In", One, bad),
     Pipe("upper", <<bad>>), Pipe("lower", <<bad>>), Pipe("capitalize", <<bad>>),
     Pipe("replace", <<bad, Lit(JStr("a")), Lit(JStr("b"))>>),
     Pipe("round", <<bad, Two>>), Pipe("float", <<bad>>), Pipe("int", <<bad>>),
     Pipe("even", <<bad>>), Pipe("odd", <<bad>>), Pipe("divisibleBy", <<bad, Two>>),
     Pipe("range", <<bad>>),
     Pipe("length", <<bad>>), Pipe("first", <<bad>>), Pipe("last", <<bad>>),
     Pipe("max", <<bad>>), Pipe("min", <<bad>>), Pipe("sort", <<bad>>),
     Pipe("join", <<bad, Lit(JStr(","))>>),
     Call("at", <<bad, Lit(JInt(0))>>), Call("at", <<Var("xs"), bad>>),
     Call("exists", <<bad>>), Call("existsIn", <<bad, Lit(JStr("k"))>>),
     Call("existsIn", <<Var("good"), bad>>),
     Pipe("isArray", <<bad>>), Pipe("isBoolean", <<bad>>), Pipe("isFloat", <<bad>>),
     Pipe("isInteger", <<bad>>), Pipe("isNumber", <<bad>>), Pipe("isObject", <<bad>>),
     Pipe("isString", <<bad>>),
     NotE(bad), Bin("and", "And", bad, Lit(JBool(TRUE))), Bin("and", "And", Lit(JBool(TRUE)), bad),
     Bin("and", "And", Lit(JBool(FALSE)), bad),
     Bin("or", "Or", bad, Lit(JBool(TRUE))), Bin("or", "Or", Lit(JBool(TRUE)), bad),
     Pipe("default", <<bad, One>>) >>

\* the three places an expression is evaluated in
OpItemsOf(e) ==
  << <<ExprItem(e)>>, <<IfItem(e, <<TextItem("y")>>)>>, <<SetItem("v", e)>> >>

OpItems ==
  [i \in 1..(3 * Len(OpExpressions)) |-> OpItemsOf(OpExpressions[((i - 1) \div 3) + 1])[((i - 1) % 3) + 1]]

\* `and` and `or` with a first operand that decides the result or not, and
\* a call of a callback or a missing variable as second operand
LogicExpressions ==
  << Bin("and", "And", Lit(JBool(FALSE)), Call("log", <<One>>)),
     Bin("or", "Or", Lit(JBool(TRUE)), Call("log", <<One>>)),
     Bin("and", "And", Lit(JBool(TRUE)), Call("log", <<One>>)),
     Bin("or", "Or", Lit(JBool(FALSE)), Call("log", <<One>>)),
     Bin("and", "And", Lit(JBool(FALSE)), bad),
     Bin("or", "Or", Lit(JBool(TRUE)), bad),
     Bin("and", "And", Lit(JBool(TRUE)), bad),
     Bin("or", "Or", Lit(JBool(FALSE)), bad) >>

\* the templates of the statement cases
LogicItems ==
  [i \in 1..Len(LogicExpressions) |-> <<ExprItem(LogicExpressions[i])>>]
\* super() outside every block: a{{ super() }}b, a{{ super(2) }}b, and
\* {% extends "base" %} whose parent calls it
SuperItems ==
  << <<TextItem("a"), ExprItem(Call("super", <<>>)), TextItem("b")>>,
     <<TextItem("a"), ExprItem(Call("super", <<Two>>)), TextItem("b")>>,
     <<ExtendsItem("base")>> >>
\* {% set x = e %}[{{ x }}]Done with an expression that cannot be evaluated
SetNullItemsOf(e) == <<SetItem("x", e), TextItem("["), ExprItem(Var("x")), TextItem("]Done")>>
SetNullItems ==
  << SetNullItemsOf(bad), SetNullItemsOf(Var("good.bad.bad")),
     SetNullItemsOf(Bin("+", "Add", bad, One)) >>
\* {% for item in e %}x{{ item }}{% endfor %}Done over a missing variable
ForMissingItemsOf(e) ==
  <<ForItem("item", e, <<TextItem("x"), ExprItem(Var("item"))>>), TextItem("Done")>>
ForMissingItems == <<ForMissingItemsOf(bad), ForMissingItemsOf(Var("good.bad.items"))>>
\* if statements whose condition is a missing variable: with an else
\* branch, with an else-if on a second missing variable, with an else-if on
\* the variable b, and without an else branch
IfMissingItems ==
  << <<IfElseItem(Var("good.bad.bad"), <<TextItem("yes")>>, <<TextItem("no")>>)>>,
     <<IfElseItem(bad, <<TextItem("A")>>,
                  <<IfElseItem(Var("bad2"), <<TextItem("B")>>, <<TextItem("C")>>)>>)>>,
     <<IfElseItem(bad, <<TextItem("A")>>,
                  <<IfElseItem(Var("b"), <<TextItem("B")>>, <<TextItem("C")>>)>>)>>,
     <<IfItem(bad, <<TextItem("yes")>>), TextItem("Done")>> >>
\* {{ x | default(fallback) }}, piped into upper or not: x missing, present,
\* null in one input and missing in the other, and a missing member
DefaultCases ==
  << [x |-> "bad", fallback |-> JInt(5), upper |-> FALSE],
     [x |-> "n", fallback |-> JInt(5), upper |-> FALSE],
     [x |-> "u", fallback |-> JInt(5), upper |-> FALSE],
     [x |-> "good.bad", fallback |-> JStr("none"), upper |-> TRUE],
     [x |-> "s", fallback |-> JStr("none"), upper |-> TRUE] >>
DefaultExpr(c) == Pipe("default", <<Var(c.x), Lit(c.fallback)>>)
DefaultItems ==
  [i \in 1..Len(DefaultCases) |->
     <<ExprItem(IF DefaultCases[i].upper THEN Pipe("upper", <<DefaultExpr(DefaultCases[i])>>)
                ELSE DefaultExpr(DefaultCases[i]))>>]
\* self-assignments `set K = f(K, ...)` and their neighbours: the in-place
\* pattern with K assigned before, with a missing second argument (append,
\* push), with K only in the input, with a callback that has no in-place variant, with
\* another variable as first argument, and with a built-in as f
InplaceItems ==
  << <<SetItem("ys", Var("xs")), SetItem("ys", AppendTo("ys")), ExprItem(Var("ys"))>>,
     <<SetItem("ys", Var("xs")), SetItem("ys", Call("append", <<Var("ys"), bad>>)),
       ExprItem(Var("ys"))>>,
     <<SetItem("ys", Var("xs")), SetItem("ys", Call("push", <<Var("ys"), bad>>)),
       ExprItem(Var("ys"))>>,
     <<SetItem("xs", Call("append", <<Var("xs"), bad>>)), ExprItem(Var("xs"))>>,
     <<SetItem("m", Var("n")), SetItem("m", Call("twice", <<Var("m")>>)), ExprItem(Var("m"))>>,
     <<SetItem("ys", Var("xs")), SetItem("ys", AppendTo("xs")), ExprItem(Var("ys"))>>,
     <<SetItem("ys", Var("xs")), SetItem("ys", Pipe("sort", <<Var("ys")>>)),
       ExprItem(Var("ys"))>> >>
Bracketed(name) == <<TextItem("["), ExprItem(Var(name)), TextItem("]")>>
\* loops over values that are not what the loop iterates: an array loop
\* over a string, an object and a number, an object loop over an array and
\* a string
WrongTypeItems ==
  << <<ForItem("x", Var("s"), Bracketed("x")), TextItem(".")>>,
     <<ForItem("x", Var("good"), Bracketed("x")), TextItem(".")>>,
     <<ForItem("x", Var("n"), Bracketed("x")), TextItem(".")>>,
     <<ForObjectItem("k", "v", Var("xs"), Bracketed("k")), TextItem(".")>>,
     <<ForObjectItem("k", "v", Var("s"), Bracketed("k")), TextItem(".")>> >>
\* {{ loop.index }}{{ loop.index1 }}{{ loop.is_first }}{{ loop.is_last }}
\* and the same of loop.parent
LoopStatus(end) ==
  <<ExprItem(Var("loop.index")), ExprItem(Var("loop.index1")), ExprItem(Var("loop.is_first")),
    ExprItem(Var("loop.is_last")), TextItem(end)>>
ParentStatus ==
  <<ExprItem(Var("loop.parent.index")), ExprItem(Var("loop.parent.index1")),
    ExprItem(Var("loop.parent.is_first")), ExprItem(Var("loop.parent.is_last")), TextItem(":")>>
Seven == Lit(JArr(<<JInt(7)>>))
SevenEight == Lit(JArr(<<JInt(7), JInt(8)>>))
AB == Lit(JObj([a |-> JInt(1), b |-> JInt(2)]))
\* loops printing their loop data: over the input's xs, over literals of 0,
\* 1 and 2 elements, over objects of 2 and 0 members, and loops with a
\* nested array loop, a nested object loop and a nested empty loop
IndexItems ==
  << <<ForItem("x", Var("xs"), LoopStatus(";"))>>,
     <<ForItem("x", Lit(JArr(<<>>)), LoopStatus(";"))>>,
     <<ForItem("x", Seven, LoopStatus(";"))>>,
     <<ForItem("x", SevenEight, LoopStatus(";"))>>,
     <<ForObjectItem("k", "v", AB, LoopStatus(";"))>>,
     <<ForObjectItem("k", "v", Lit(JObj(<<>>)), LoopStatus(";"))>>,
     <<ForItem("x", Var("xs"),
               <<ForItem("y", SevenEight, ParentStatus \o LoopStatus(","))>> \o LoopStatus(";"))>>,
     <<ForItem("x", Var("xs"),
               <<ForObjectItem("k", "v", AB, ParentStatus \o LoopStatus(","))>>
                 \o LoopStatus(";"))>>,
     <<ForObjectItem("k", "v", AB,
                     <<ForItem("y", Lit(JArr(<<>>)), ParentStatus \o LoopStatus(","))>>
                       \o LoopStatus(";"))>> >>
LoopItems == WrongTypeItems \o IndexItems
\* a block with a nested block and text behind it
NestedBlock(text) ==
  BlockItem("body", <<TextItem("x"), BlockItem("b", <<TextItem("y")>>), TextItem(text)>>)
\* templates with blocks and what they are to render: nested blocks in one
\* template, a child of "layout" calling super() with text behind it, and
\* children of "layout" and "page" whose block holds a nested block
BlockCases ==
  << [items |-> <<NestedBlock("z"), TextItem("!")>>, out |-> "xyz!"],
     [items |-> <<ExtendsItem("layout"),
                  BlockItem("body", <<TextItem("child-"), ExprItem(Call("super", <<>>)),
                                      TextItem("-end")>>)>>,
      out |-> "[child-base-end]"],
     [items |-> <<ExtendsItem("layout"), NestedBlock("z")>>, out |-> "[xyz]"],
     [items |-> <<ExtendsItem("page"), NestedBlock("z")>>, out |-> "[xyz]" \o PageFooter] >>
BlockItems == [i \in 1..Len(BlockCases) |-> BlockCases[i].items]
\* at([{"answer":2,"n":1,"name":"ann"}], 0), an object that is computed
Ann == JObj([name |-> JStr("ann"), n |-> JInt(1), answer |-> JInt(2)])
Computed == Call("at", <<Lit(JArr(<<Ann>>)), Lit(JInt(0))>>)
\* the member `name` of the value of expression e: e . name
AtId(e, name) == Bin(".", "AtId", e, Var(name))
\* member accesses on the computed object and the member they name: a name
\* that is nothing else, a name that is a variable of the input, a name
\* that is a zero-argument callback, and a member access behind an
\* expression that found no variable; `out` is the member's text
AtIdCases ==
  << [items |-> <<ExprItem(AtId(Computed, "name"))>>, member |-> "name", before |-> "", out |-> "ann"],
     [items |-> <<ExprItem(AtId(Computed, "n"))>>, member |-> "n", before |-> "", out |-> "1"],
     [items |-> <<ExprItem(AtId(Computed, "answer"))>>, member |-> "answer", before |-> "", out |-> "2"],
     [items |-> <<ExprItem(bad), ExprItem(AtId(Computed, "n"))>>, member |-> "n",
      before |-> "{{ bad }}", out |-> "1"] >>
AtIdItems == [i \in 1..Len(AtIdCases) |-> AtIdCases[i].items]
\* loops whose loop variable, or key variable, has the name of a variable
\* of the input (n) or of an earlier set statement (x), with a read of that
\* name behind the loop; `out` is the output when the name means behind the
\* loop what it meant in front of it
ShadowCases ==
  << [items |-> <<ExprItem(Var("n")), ForItem("n", SevenEight, <<ExprItem(Var("n"))>>),
                  ExprItem(Var("n"))>>,
      out |-> "3783"],
     [items |-> <<ForItem("n", Lit(JArr(<<>>)), <<>>), ExprItem(Var("n"))>>, out |-> "3"],
     [items |-> <<SetItem("x", Lit(JInt(1))), ForObjectItem("n", "x", AB, <<>>),
                  ExprItem(Var("n")), ExprItem(Var("x"))>>,
      out |-> "31"] >>
ShadowItems == [i \in 1..Len(ShadowCases) |-> ShadowCases[i].items]
\* templates that include "part" with x bound by a set statement and with x
\* bound by a loop, and read x behind the include; `out` is the output
IncludeCases ==
  << [items |-> <<SetItem("x", Lit(JInt(1))), IncludeItem("part"), ExprItem(Var("x"))>>,
      out |-> "1251"],
     [items |-> <<ForItem("x", SevenEight, <<IncludeItem("part"), ExprItem(Var("x")),
                                             TextItem(";")>>)>>,
      out |-> "7257;8258;"] >>
IncludeItems == [i \in 1..Len(IncludeCases) |-> IncludeCases[i].items]
\* a remainder and a divisibility test with the divisor 0, on a literal and
\* on the input's n
ZeroDivisor == Lit(JInt(0))
ZeroItems ==
  << <<ExprItem(Bin("%", "Modulo", Lit(JInt(7)), ZeroDivisor))>>,
     <<ExprItem(Bin("%", "Modulo", Var("n"), ZeroDivisor))>>,
     <<ExprItem(Call("divisibleBy", <<Lit(JInt(7)), ZeroDivisor>>))>>,
     <<ExprItem(Call("divisibleBy", <<Var("n"), ZeroDivisor>>))>> >>
CaseItems ==
  LogicItems \o SuperItems \o SetNullItems \o ForMissingItems \o IfMissingItems
    \o DefaultItems \o InplaceItems \o LoopItems \o BlockItems \o AtIdItems
    \o ShadowItems \o IncludeItems \o ZeroItems

AllItems == ClaimItems \o OpItems \o CaseItems
\* the templates as parsed: one that begins with an extends statement has
\* joined the blocks of the stored template it names
Templates ==
  [i \in 1..Len(AllItems) |->
     IF AllItems[i][1].s = "extends" /\ AllItems[i][1].file \in DOMAIN RenderTemplateStorage
     THEN Extending(Template(AllItems[i], RenderFunctionStorage),
                    RenderTemplateStorage[AllItems[i][1].file])
     ELSE Template(AllItems[i], RenderFunctionStorage)]
ClaimTemplates == 1..Len(ClaimItems)
OpTemplates == (Len(ClaimItems) + 1)..(Len(ClaimItems) + Len(OpItems))
CaseTemplates == (Len(ClaimItems) + Len(OpItems) + 1)..Len(AllItems)

\* the cache the caching wrapper belongs to caches null results or not
RenderCacheConfigs ==
  { [DefaultCacheConfig EXCEPT !.cache_void_callbacks = cv] : cv \in BOOLEAN }

MaxRenders == 2
MaxOpRenders == 1
MaxCaseRenders == 1
MaxVetoRenders == 2

\* the predicates of enable_callback_cache: none, one that vetoes log, one
\* that vetoes every callback but log
CachePredicates ==
  {Nullptr, CachePredicate({"twice", "append", "answer"}), CachePredicate({"log"})}

\* what the Renderer of the current render reads
ContextOf(cfg, d) ==
  [config |-> cfg, template_storage |-> theap[template_storage_],
   function_storage |-> fheap[function_storage_], data_input |-> d,
   cache_config |-> config_, should_cache |-> should_cache_, now |-> now]
Context == ContextOf(config_snapshot, rdata)

\* Environment::render lines 498-500 into render_to lines 536-552, and
\* Renderer::render_to as far as the visit of the root block
RenderToBegin(i, d, max) ==
  /\ rpc # "rendering"
  /\ renders < max
  /\ renders' = renders + 1
  /\ tl_render_errors_' = [tl_render_errors_ EXCEPT ![RenderThread] = <<>>]
  /\ config_snapshot' = render_config
  /\ rtmpl' = i /\ rdata' = d /\ rnode' = 1 /\ returned' = Nullptr
  /\ renderer' = render_to_begin(NewRenderer("", <<>>, <<>>, CacheNow),
                                 ContextOf(render_config, d), Templates[i], FALSE, JNull)
  /\ rpc' = "rendering"
  /\ UNCHANGED cacheVars
  /\ UNCHANGED notRender

RootNodes == Templates[rtmpl].root.nodes

\* one turn of the loop of visit(const BlockNode&) over the root block
RenderNode ==
  /\ rpc = "rendering"
  /\ ~Halted(renderer) /\ ~renderer.break_rendering
  /\ rnode <= Len(RootNodes)
  /\ LET r1 == Visit(RootNodes[rnode], [renderer EXCEPT !.cache = CacheNow], Context)
     IN renderer' = r1 /\ SetCache(r1.cache)
  /\ rnode' = rnode + 1
  /\ UNCHANGED <<now, tl_render_errors_, rpc, rtmpl, rdata, config_snapshot, renders, returned>>
  /\ UNCHANGED notRender

\* Renderer::render_to lines 1108-1110, Environment::render_to lines 555-558
\* and render line 501
RenderToEnd ==
  /\ rpc = "rendering"
  /\ ~Halted(renderer)
  /\ rnode > Len(RootNodes) \/ renderer.break_rendering
  /\ renderer' = emit_event(renderer, Context, "RenderEnd", "", "", 0)
  /\ tl_render_errors_' = [tl_render_errors_ EXCEPT ![RenderThread] = renderer.render_errors]
  /\ returned' = renderer.out
  /\ rpc' = "returned"
  /\ UNCHANGED <<rtmpl, rdata, config_snapshot, rnode, renders>>
  /\ UNCHANGED cacheVars
  /\ UNCHANGED notRender

\* an exception leaves render: the stream is destroyed, nothing is returned
\* and the thread's errors stay as render_to cleared them
RenderRaises ==
  /\ rpc = "rendering"
  /\ Halted(renderer)
  /\ rpc' = IF renderer.ub THEN "undefined" ELSE "raised"
  /\ UNCHANGED <<renderer, tl_render_errors_, rtmpl, rdata, config_snapshot, rnode, renders,
                 returned>>
  /\ UNCHANGED cacheVars
  /\ UNCHANGED notRender

RenderNext ==
  \/ \E i \in ClaimTemplates, d \in RenderData : RenderToBegin(i, d, MaxRenders)
  \/ RenderNode
  \/ RenderToEnd
  \/ RenderRaises
  \/ Tick

OpNext ==
  \/ \E i \in OpTemplates, d \in RenderData : RenderToBegin(i, d, MaxOpRenders)
  \/ RenderNode
  \/ RenderToEnd
  \/ RenderRaises

\* `{% set xs = append(xs, bad) %}{{ xs }}` among the templates
AppendMissing ==
  Len(ClaimItems) + Len(OpItems) + Len(LogicItems) + Len(SuperItems) + Len(SetNullItems)
    + Len(ForMissingItems) + Len(IfMissingItems) + Len(DefaultItems) + 4
\* the templates that call callbacks: twice and append, log twice, and
\* append with a missing argument, which raises in strict mode
VetoTemplates == {4, Len(ClaimItems), AppendMissing}
VetoNext ==
  \/ \E i \in VetoTemplates, d \in RenderData : RenderToBegin(i, d, MaxVetoRenders)
  \/ RenderNode
  \/ RenderToEnd
  \/ RenderRaises
  \/ Tick

CaseNext ==
  \/ \E i \in CaseTemplates, d \in RenderData : RenderToBegin(i, d, MaxCaseRenders)
  \/ RenderNode
  \/ RenderToEnd
  \/ RenderRaises

\* ---------------------------------------------------------------------------
\* Specifications
\* ---------------------------------------------------------------------------

\* a CallbackCache used on its own: no Environment has been constructed
NoEnvironment ==
  /\ fheap = <<>> /\ theap = <<>>
  /\ function_storage_ = 0 /\ template_storage_ = 0
  /\ write_mutex_ = NoThread
  /\ render_config = [graceful_errors |-> FALSE]
  /\ tl_render_errors_ = <<>>
  /\ tl_parse_cache_ = <<>>
  /\ eth = <<>>
  /\ eops = 0
  /\ registered = {}
  /\ cheap = <<>> /\ callback_cache_ = 0

NoRender ==
  /\ renderer = Nullptr /\ rpc = "idle" /\ rtmpl = 0 /\ rdata = Nullptr
  /\ config_snapshot = Nullptr /\ rnode = 0 /\ renders = 0 /\ returned = Nullptr

\* no predicate is set: should_cache_ is an empty std::function
NoPredicate == should_cache_ = Nullptr
CacheInit == CacheObjectInit /\ NoPredicate /\ NoEnvironment /\ NoRender
CacheSpec == CacheInit /\ [][CacheNext]_vars
\* a cache constructed with the default configuration
LruInit == CacheInit /\ config_ = DefaultCacheConfig
LruSpec == LruInit /\ [][LruNext]_vars

EnvInit ==
  CacheObjectInit /\ NoPredicate /\ config_ = DefaultCacheConfig /\ EnvObjectInit /\ NoRender
EnvSpec == EnvInit /\ [][EnvNext]_vars
\* threads registering callbacks and looking functions up
LookupSpec == EnvInit /\ [][LookupNext]_vars
\* an Environment whose render_config has no callback wrapper yet
WrapperInit ==
  /\ CacheObjectInit /\ NoPredicate /\ config_ = DefaultCacheConfig /\ NoRender
  /\ fheap = <<ArrayFunctionStorage>>
  /\ theap = << <<>> >>
  /\ function_storage_ = 1 /\ template_storage_ = 1
  /\ write_mutex_ = NoThread
  /\ render_config = [graceful_errors |-> FALSE, callback_wrapper |-> 0]
  /\ tl_render_errors_ = [t \in EnvThreads |-> <<>>]
  /\ tl_parse_cache_ = [t \in EnvThreads |-> <<>>]
  /\ eth = [t \in EnvThreads |-> IdleEnvThread]
  /\ eops = 0
  /\ registered = {}
  /\ cheap = <<>> /\ callback_cache_ = 0
WrapperSpec == WrapperInit /\ [][WrapperNext]_vars
\* threads parsing and registering on one Environment
ParseSpec == EnvInit /\ [][ParseNext]_vars

\* an environment with its callbacks and the template "inc" registered and
\* its render configuration set, before its first render
RenderObjectInit ==
  /\ CacheObjectInit /\ config_ \in RenderCacheConfigs
  /\ fheap = <<RenderFunctionStorage>>
  /\ theap = <<RenderTemplateStorage>>
  /\ function_storage_ = 1 /\ template_storage_ = 1
  /\ write_mutex_ = NoThread
  /\ render_config \in RenderConfigs
  /\ tl_render_errors_ = [t \in EnvThreads |-> <<>>]
  /\ tl_parse_cache_ = [t \in EnvThreads |-> <<>>]
  /\ eth = [t \in EnvThreads |-> IdleEnvThread]
  /\ eops = 0
  /\ registered = {}
  /\ callback_cache_ = (IF render_config.callback_wrapper = "caching" THEN 1 ELSE 0)
  /\ cheap = (IF render_config.callback_wrapper = "caching" THEN <<OwnedCache(0)>> ELSE <<>>)
  /\ NoRender
RenderInit == RenderObjectInit /\ NoPredicate
\* an environment after enable_callback_cache(config) or
\* enable_callback_cache(config, predicate)
VetoInit ==
  /\ RenderObjectInit
  /\ render_config.callback_wrapper = "caching"
  /\ should_cache_ \in CachePredicates
\* renders through the caching wrapper, with and without a predicate
VetoSpec == VetoInit /\ [][VetoNext]_vars
RenderSpec == RenderInit /\ [][RenderNext]_vars
OpSpec == RenderInit /\ [][OpNext]_vars
CaseSpec == RenderInit /\ [][CaseNext]_vars

\* ---------------------------------------------------------------------------
\* Properties
\* ---------------------------------------------------------------------------
\* the render of thread t holds its storage snapshots
HoldsSnapshots(t) == eth[t].pc \in {"snapshot_config", "rendering"}

(* C1: snapshot isolation.  The storages a render loaded at entry of render_to
   keep the content they had when it loaded them, whatever add_callback,
   add_void_callback or include_template other threads run afterwards; every
   callback the render invoked and every template it included is the one
   its snapshot resolves; and a registration that has returned is in the
   published storage, so every render started later sees it. *)
C1_SnapshotIsolation ==
  /\ \A t \in EnvThreads :
       /\ eth[t].pc \in {"load_func", "snapshot_config", "rendering"} =>
            theap[eth[t].tmpl_storage] = eth[t].tmpls_at_entry
       /\ HoldsSnapshots(t) => fheap[eth[t].func_storage] = eth[t].funcs_at_entry
       /\ \A i \in 1..Len(eth[t].out) :
            LET o == eth[t].out[i]
            IN IF o[1] = "call"
               THEN /\ find_function(eth[t].funcs_at_entry, o[2], 0).operation = "Callback"
                    /\ find_function(eth[t].funcs_at_entry, o[2], 0).callback = o[3]
               ELSE /\ o[2] \in DOMAIN eth[t].tmpls_at_entry
                    /\ eth[t].tmpls_at_entry[o[2]] = o[3]
  /\ \A op \in registered :
       IF OnTemplates(op)
       THEN op[2] \in DOMAIN theap[template_storage_]
       ELSE <<op[2], op[3]>> \in DOMAIN fheap[function_storage_]

\* a render that has invoked a callback of its snapshot while the published
\* function storage has moved on and resolves some name differently
C1_Witness ==
  \E t \in EnvThreads :
    /\ eth[t].pc = "rendering"
    /\ \E i \in 1..Len(eth[t].out) : eth[t].out[i][1] = "call"
    /\ eth[t].func_storage # function_storage_
    /\ \E name \in CallbackNames :
         find_function(fheap[function_storage_], name, 0)
           # find_function(fheap[eth[t].func_storage], name, 0)

\* a thread completes the locked section of put in this step
PutCompletes(t) == cth[t].pc = "put" /\ cth'[t].pc = "idle"
\* entries of the list before the step that are gone after it
RemovedEntries == { i \in 1..Len(lru_list_) : lru_list_[i].key \notin cache_map_' }

(* C9: with max_entries = N > 0 the cache never holds more than N entries,
   whatever the interleaving of put, try_get, invalidate and clear; with
   max_entries = 0 a put removes an entry only when it has expired, never
   for capacity. *)
C9_CapacityBound ==
  /\ [](config_.max_entries > 0 =>
          /\ Cardinality(cache_map_) <= config_.max_entries
          /\ Len(lru_list_) <= config_.max_entries)
  /\ [][\A t \in CacheThreads :
          (config_.max_entries = 0 /\ PutCompletes(t)) =>
            \A i \in RemovedEntries : lru_list_[i].expiry <= now]_vars

\* a full cache of capacity 2 after an eviction for capacity
C9_Witness ==
  /\ config_.max_entries = 2
  /\ Len(lru_list_) = 2
  /\ evictions_ >= 1
  /\ \A i \in 1..Len(lru_list_) : lru_list_[i].expiry > now

\* what try_get must answer for `key` at clock reading `tnow`, from the history
Expected(key, tnow) ==
  IF stored[key] # NoEntry /\ stored[key].at + config_.ttl > tnow
  THEN [found |-> TRUE, value |-> stored[key].val]
  ELSE [found |-> FALSE, value |-> JNull]

(* C10: try_get returns a value iff an entry for the key was stored by a put,
   has not since been evicted, invalidated or cleared, and its expiry (the
   clock reading of the put that stored it last, plus ttl) is strictly later
   than the clock reading try_get took; the value is the one given to that
   put; an entry at or past its expiry is not returned although it is still
   in the list. *)
C10_TryGetIffLive ==
  [][\A t \in CacheThreads :
       (cth[t].pc = "get" /\ cth'[t].pc = "got") =>
         /\ cth'[t].found = Expected(cth[t].key, cth[t].time).found
         /\ cth'[t].found => cth'[t].result = Expected(cth[t].key, cth[t].time).value
         /\ (\E i \in 1..Len(lru_list_) :
                /\ lru_list_[i].key = cth[t].key
                /\ lru_list_[i].expiry <= cth[t].time) => ~cth'[t].found]_vars

\* a miss on an entry that is still stored but at its expiry
C10_Witness ==
  \E t \in CacheThreads :
    /\ cth[t].pc = "got"
    /\ ~cth[t].found
    /\ \E i \in 1..Len(lru_list_) :
         lru_list_[i].key = cth[t].key /\ lru_list_[i].expiry = cth[t].time

\* a render has returned its output to the caller
Returned == rpc = "returned"
\* the caching wrapper of set_callback_cache was installed for the render
Caching == config_snapshot.callback_wrapper = "caching"
\* the render took the in-place path of a set statement
TookInplace == \E i \in 1..Len(renderer.events) : renderer.events[i][1] = "InplaceOptUsed"

EmptyCache == CacheOf({}, <<>>, 0, 0, 0)

\* the render of the same template over the same data by an environment
\* whose callback cache is disabled
UncachedRender ==
  render_to(NewRenderer("", <<>>, <<>>, EmptyCache),
            [Context EXCEPT !.config.callback_wrapper = "none"], Templates[rtmpl], FALSE, JNull)

(* C2: cache correctness.  With the callback cache enabled and deterministic
   callbacks, a render that returns has produced the output the same render
   produces with the cache disabled, whichever calls, ordinary or in-place,
   populated the cache before. *)
C2_CacheCorrectness ==
  (Returned /\ Caching) => returned = UncachedRender.out

\* the function storage with the in-place variant of every callback removed
WithoutInplace(storage) ==
  [key \in DOMAIN storage |-> [storage[key] EXCEPT !.inplace_callback = NoCallback]]

\* the render of the same template over the same data, under the same
\* configuration and a fresh cache, when no callback has an in-place variant:
\* every set statement takes the ordinary evaluate-then-assign path
OrdinaryRender ==
  render_to(NewRenderer("", <<>>, <<>>, EmptyCache),
            [Context EXCEPT !.function_storage = WithoutInplace(@)], Templates[rtmpl],
            FALSE, JNull)

(* C3: in-place equivalence.  A render whose set statements took the in-place
   path leaves every variable with the value the ordinary path gives it, with
   no wrapper, a tracing wrapper and the caching wrapper alike. *)
C3_InplaceEquivalence ==
  (Returned /\ TookInplace) => renderer.additional_data = OrdinaryRender.additional_data

\* the render runs, or ran, with graceful errors enabled
Graceful == config_snapshot # Nullptr /\ config_snapshot.graceful_errors
\* an exception, or undefined behaviour, left render
Raised == rpc \in {"raised", "undefined"}

RECURSIVE Member(_, _, _)
\* the value the keys from i on name inside j, Nullptr when a key is missing
\* or the value reached is not an object
Member(j, keys, i) ==
  IF i > Len(keys) THEN j
  ELSE IF j.t = "obj" /\ keys[i] \in DOMAIN j.o THEN Member(j.o[keys[i]], keys, i + 1)
  ELSE Nullptr

\* the value of a dotted name: a loop variable of `locals` or else a member
\* of the data
ValueOf(name, locals, data) ==
  IF convert_dot_to_ptr(name)[1] \in DOMAIN locals
  THEN Member(locals[convert_dot_to_ptr(name)[1]], convert_dot_to_ptr(name), 2)
  ELSE Member(data, convert_dot_to_ptr(name), 1)

\* a value as an expression tag writes it
Written(v) == IF v.t = "str" THEN v.s ELSE Dump(v)

RECURSIVE OnlyPaths(_, _)
\* the items from i on are text, tags of a variable path and loops of such
OnlyPaths(items, i) ==
  \/ i > Len(items)
  \/ /\ \/ items[i].s = "text"
        \/ items[i].s = "expr" /\ items[i].e.e = "var"
        \/ items[i].s = "for" /\ items[i].e.e = "var" /\ OnlyPaths(items[i].body, 1)
     /\ OnlyPaths(items, i + 1)
PathTemplates == { i \in ClaimTemplates : OnlyPaths(ClaimItems[i], 1) }

RECURSIVE EchoText(_, _, _, _)
RECURSIVE EchoLoop(_, _, _, _, _)
\* what graceful rendering is to write for the items from i on: text as it
\* is, a resolvable tag as its value, an unresolvable tag as its own source
EchoText(items, i, locals, data) ==
  IF i > Len(items) THEN ""
  ELSE (CASE items[i].s = "text" -> items[i].text
          [] items[i].s = "expr" ->
               IF ValueOf(items[i].e.name, locals, data) # Nullptr
               THEN Written(ValueOf(items[i].e.name, locals, data))
               ELSE "{{ " \o items[i].e.name \o " }}"
          [] items[i].s = "for" ->
               IF ValueOf(items[i].e.name, locals, data) = Nullptr THEN ""
               ELSE EchoLoop(items[i], ValueOf(items[i].e.name, locals, data).a, 1, locals, data))
       \o EchoText(items, i + 1, locals, data)
EchoLoop(item, elements, n, locals, data) ==
  IF n > Len(elements) THEN ""
  ELSE EchoText(item.body, 1, (item.value :> elements[n]) @@ locals, data)
       \o EchoLoop(item, elements, n + 1, locals, data)

(* C4: with graceful errors enabled, a render of text, expression tags of
   variable paths and loops over them never raises, and its output is the
   text with every resolvable tag replaced by its value and every tag whose
   path cannot be resolved (missing root, missing member at any depth, member
   of a null, array, string, number or boolean) left exactly as written,
   delimiters included, in every iteration of a loop. *)
C4_GracefulEcho ==
  (Graceful /\ rtmpl \in PathTemplates) =>
    /\ ~Raised
    /\ Returned => returned = EchoText(ClaimItems[rtmpl], 1, <<>>, rdata)

\* a graceful render returned with an unresolvable tag echoed between the
\* values of two resolvable ones, inside a loop
C4_Witness ==
  /\ Graceful /\ Returned /\ rtmpl \in PathTemplates
  /\ returned = "ann;{{ v.name }};bob;"

\* the render runs, or ran, with graceful errors disabled
Strict == config_snapshot # Nullptr /\ ~config_snapshot.graceful_errors

\* the expression of an operator template and the place it is written in:
\* 1 an expression output, 2 an if condition, 3 a set statement
OpExpressionOf(i) == OpExpressions[((i - Len(ClaimItems) - 1) \div 3) + 1]
OpPlaceOf(i) == ((i - Len(ClaimItems) - 1) % 3) + 1

\* the tag, the one node of an operator template, has been rendered
TagRendered == rtmpl \in OpTemplates /\ rpc \in {"rendering", "raised"} /\ rnode > 1

\* the render raised a RenderError and returned nothing
RaisedRenderError ==
  /\ Halted(renderer) /\ ~renderer.ub
  /\ renderer.exc.type = "RenderError"
  /\ returned = Nullptr

\* `default`, which yields its fallback for a missing input
IsDefault(e) == e.e = "pipe" /\ e.name = "default"
\* an and/or whose first operand decides the result: the code does not
\* evaluate the second
Decided(e) ==
  /\ e.e = "bin" /\ e.op \in {"And", "Or"}
  /\ e.args[1].e = "lit" /\ truthy(e.args[1].v) = (e.op = "Or")

(* C5, as stated: with graceful errors disabled, rendering an expression
   whose variable is missing, on its own or as the operand of any operator
   or the input of any filter, raises a RenderError and returns no output. *)
C5_StrictRaisesAlways ==
  (Strict /\ rtmpl \in OpTemplates) =>
    /\ rpc \notin {"returned", "undefined"}
    /\ TagRendered => RaisedRenderError

(* C5, amended: with graceful errors disabled, rendering an expression whose
   variable is missing raises a RenderError and returns no output, unless the
   variable is the input of `default` or the second operand of an and/or
   the first operand decides; for a bare expression output the error reads
   variable '<dotted name>' not found and carries the line and column of the
   variable reference, 1:4 for {{ good.bad }}. *)
C5_StrictRaises ==
  (Strict /\ rtmpl \in OpTemplates
     /\ ~IsDefault(OpExpressionOf(rtmpl)) /\ ~Decided(OpExpressionOf(rtmpl))) =>
    /\ rpc \notin {"returned", "undefined"}
    /\ TagRendered => RaisedRenderError
    /\ (TagRendered /\ OpPlaceOf(rtmpl) = 1 /\ OpExpressionOf(rtmpl).e = "var") =>
         /\ renderer.exc.message = "variable '" \o OpExpressionOf(rtmpl).name \o "' not found"
         /\ renderer.exc.location = [line |-> 1, column |-> 4]
         /\ What(renderer.exc)
              = "[inja.exception.render_error] (at 1:4) variable 'good.bad' not found"

\* the strict render of {{ good.bad }} has raised
C5_Witness ==
  /\ Strict /\ rpc = "raised"
  /\ rtmpl \in OpTemplates /\ Templates[rtmpl].content = "{{ good.bad }}"
  /\ renderer.exc.type = "RenderError"

\* what get_last_render_errors returns to the rendering thread
LastRenderErrors == tl_render_errors_[RenderThread]

(* C6: with graceful errors enabled, after render returns, the list
   get_last_render_errors returns holds a record (message, line and column,
   template span) for every recoverable error that occurred during the
   render, those of included and extended templates among them. *)
C6_ErrorsRecorded ==
  (Graceful /\ Returned) =>
    \A i \in 1..Len(renderer.recovered) :
      \E j \in 1..Len(LastRenderErrors) : LastRenderErrors[j] = renderer.recovered[i]

(* C7: with graceful errors enabled, applying a built-in operator or filter
   (arithmetic, comparison, logic, in, the string, number and array filters,
   at, exists/existsIn, the type checks, default) to a missing variable never
   raises out of render, in an expression output, in an if condition and in a
   set statement: once the tag is rendered no exception is pending and the
   render goes on to return. *)
C7_GracefulOperators ==
  (Graceful /\ rtmpl \in OpTemplates) =>
    /\ ~Raised
    /\ (rpc = "rendering" /\ rnode > 1) => ~Halted(renderer)

\* a graceful render of a set statement whose expression applies a filter to
\* the missing variable has returned, with the error recorded
C7_Witness ==
  /\ Graceful /\ Returned /\ rtmpl \in OpTemplates
  /\ OpPlaceOf(rtmpl) = 3 /\ OpExpressionOf(rtmpl).e = "pipe"
  /\ Len(LastRenderErrors) > 0

\* the render emitted the event for the variable `name`, at position i
EventAt(i, event, name) == renderer.events[i][1] = event /\ renderer.events[i][2] = name
Emitted(event, name) == \E i \in 1..Len(renderer.events) : EventAt(i, event, name)

\* {% set xs = append(xs, 4) %}{{ xs }} rendered over {"xs":[1,2,3]}
AppendScenario ==
  /\ Returned
  /\ Templates[rtmpl].content = "{% set xs = append(xs, 4) %}{{ xs }}"
  /\ rdata.o["xs"] = JArr(<<JInt(1), JInt(2), JInt(3)>>)

(* C8, as stated: the in-place append scenario writes [1,2,3,4] and emits an
   InplaceOptUsed event named xs: a self-assignment whose variable is
   supplied by the input data takes the in-place path. *)
C8_InputTakesInplace ==
  AppendScenario => returned = "[1,2,3,4]" /\ Emitted("InplaceOptUsed", "xs")

(* C8, amended: the in-place append scenario writes [1,2,3,4] by the ordinary
   path, emitting InplaceOptSkipped (var_not_exists) and no InplaceOptUsed
   for xs; a self-assignment set K = f(K, ...) takes the in-place path only
   when K is already in the additional data, that is after an earlier set
   statement of the render assigned K, as the second statement of
   {% set ys = xs %}{% set ys = append(ys, 4) %} does. *)
C8_InplaceNeedsAdditionalData ==
  /\ AppendScenario =>
       /\ returned = "[1,2,3,4]"
       /\ \E i \in 1..Len(renderer.events) :
            /\ EventAt(i, "InplaceOptSkipped", "xs")
            /\ renderer.events[i][3] = "var_not_exists:append"
       /\ ~Emitted("InplaceOptUsed", "xs")
  /\ rpc # "idle" =>
       \A i \in 1..Len(renderer.events) :
         renderer.events[i][1] = "InplaceOptUsed" =>
           \E j \in 1..(i - 1) : EventAt(j, "SetStatementEnd", renderer.events[i][2])
  /\ (Returned /\ rtmpl \in ClaimTemplates /\ Len(ClaimItems[rtmpl]) >= 2
        /\ SubSeq(ClaimItems[rtmpl], 1, 2)
             = <<SetItem("ys", Var("xs")), SetItem("ys", AppendTo("ys"))>>) =>
       Emitted("InplaceOptUsed", "ys")

\* the scenario has been rendered and the skip event emitted
C8_Witness == AppendScenario /\ Emitted("InplaceOptSkipped", "xs")

\* the render is of the template that calls the void callback twice
CallsLog == rtmpl # 0 /\ AllItems[rtmpl] = LogItems
LogKey == make_cache_key("log", <<JInt(1)>>)
\* the wrapper's try_get for log(1) finds a live entry
LogLive ==
  LogKey \in cache_map_ /\ lru_list_[IndexOfKey(lru_list_, LogKey)].expiry > now
\* the step of a render through the caching wrapper that evaluates log(1)
LogCall ==
  /\ CallsLog /\ Caching /\ rpc = "rendering"
  /\ rnode \in {1, 3} /\ rnode' = rnode + 1
LogRuns == renderer'.executed = Append(renderer.executed, "log")

\* C11: with cache_void_callbacks false the cache never holds a null value,
\* a call of the void callback through the caching wrapper runs the callback
\* and leaves the cache's entries as they were, so both calls of a render
\* run it; with cache_void_callbacks true the call is served from a live
\* entry without running the callback, and otherwise runs it and stores
\* the null result at the front of the cache with the configured lifetime.
C11_VoidResults ==
  /\ [](~config_.cache_void_callbacks =>
          \A i \in 1..Len(lru_list_) : lru_list_[i].value # JNull)
  /\ []((Returned /\ Caching /\ CallsLog /\ ~config_.cache_void_callbacks) =>
          renderer.executed = <<"log", "log">> /\ returned = "-")
  /\ [][LogCall =>
          IF ~config_.cache_void_callbacks
          THEN LogRuns /\ UNCHANGED <<cache_map_, lru_list_>>
          ELSE IF LogLive
          THEN renderer'.executed = renderer.executed /\ UNCHANGED <<cache_map_, lru_list_>>
          ELSE /\ LogRuns
               /\ LogKey \in cache_map_'
               /\ lru_list_'[1] = [value |-> JNull, expiry |-> now + config_.ttl,
                                   key |-> LogKey]]_vars

\* a render through the caching wrapper with cache_void_callbacks false has
\* returned after running the void callback for both calls
C11_Witness ==
  /\ Returned /\ Caching /\ CallsLog /\ ~config_.cache_void_callbacks
  /\ renderer.executed = <<"log", "log">>
  /\ cache_map_ # {} /\ LogKey \notin cache_map_

\* the entry a registration that has returned added is in the published storage
Survives(op) ==
  IF OnTemplates(op) THEN op[2] \in DOMAIN theap[template_storage_]
  ELSE <<op[2], op[3]>> \in DOMAIN fheap[function_storage_]
\* thread t is about to store the storage it built under write_mutex_
Storing(t) == eth[t].pc \in {"store", "merge_store"} /\ write_mutex_ = t

\* C12: no lost updates.  Every add_callback, add_void_callback,
\* include_template and parse-cache merge that has returned has its entry
\* in the published storage, whatever the other threads registered
\* meanwhile; a newly published storage is exactly the storage published
\* before it with the writer's entry added; and no storage object changes
\* once it exists.
C12_NoLostUpdates ==
  /\ [](\A op \in registered : Survives(op))
  /\ [][/\ \A i \in 1..Len(fheap) : fheap'[i] = fheap[i]
        /\ \A i \in 1..Len(theap) : theap'[i] = theap[i]
        /\ function_storage_' # function_storage_ =>
             \E t \in EnvThreads :
               /\ Storing(t) /\ ~OnTemplates(eth[t].op)
               /\ fheap'[function_storage_'] = ApplyOp(eth[t].op, fheap[function_storage_])
        /\ template_storage_' # template_storage_ =>
             \E t \in EnvThreads :
               /\ Storing(t) /\ OnTemplates(eth[t].op)
               /\ theap'[template_storage_'] = ApplyOp(eth[t].op, theap[template_storage_])]_vars

\* all threads have returned; a merge, an include_template and a callback
\* registration were made, by writers that copied a storage another writer
\* had published
C12_Witness ==
  /\ \A t \in EnvThreads : eth[t].pc = "idle"
  /\ \E op \in registered : op[1] = "merge_parse_cache"
  /\ \E op \in registered : op[1] = "include_template"
  /\ Len(theap) >= 3
  /\ \A op \in registered : Survives(op)

\* the templates thread t's parse made that the published storage holds
\* although it did not hold them when the parse began
Leaked(t) ==
  { n \in DOMAIN theap[template_storage_] :
      /\ theap[template_storage_][n] = ParsedTemplate(t, n)
      /\ ~(n \in DOMAIN eth[t].tmpls_at_entry /\ eth[t].tmpls_at_entry[n] = ParsedTemplate(t, n)) }

\* C13: when parse has raised, the thread's parse cache is empty and the
\* published template storage holds no template the failed parse
\* discovered.
C13_FailedParseLeavesNothing ==
  \A t \in EnvThreads :
    eth[t].pc = "parse_raised" => DOMAIN tl_parse_cache_[t] = {} /\ Leaked(t) = {}

\* C14: the list get_last_render_errors gives a thread is empty while the
\* thread's render runs, holds exactly the errors that render recorded
\* once it has returned, and the lists of the other threads are not
\* touched by it.
C14_LastRenderErrors ==
  /\ rpc = "rendering" => tl_render_errors_[RenderThread] = <<>>
  /\ Returned => tl_render_errors_[RenderThread] = renderer.recovered
  /\ \A t \in EnvThreads \ {RenderThread} : tl_render_errors_[t] = <<>>

\* thread t has looked a function up
Found(t) == eth[t].out # <<>> /\ eth[t].out[1] = "find"
\* the storage the look-up of thread t read, the name and arity it asked
\* for and the entry it got
LookedIn(t) == fheap[eth[t].func_storage]
LookedFor(t) == <<eth[t].out[2], eth[t].out[3]>>
VariadicOf(t) == <<eth[t].out[2], VARIADIC>>
NoFunction == FunctionData("None", NoCallback, NoCallback)

\* C15 as stated: the variadic entry is the fallback at every arity, 0
\* included
C15_VariadicAtEveryArity ==
  \A t \in EnvThreads : Found(t) =>
    eth[t].out[4] = IF LookedFor(t) \in DOMAIN LookedIn(t) THEN LookedIn(t)[LookedFor(t)]
                    ELSE IF VariadicOf(t) \in DOMAIN LookedIn(t) THEN LookedIn(t)[VariadicOf(t)]
                    ELSE NoFunction

\* C15: find_function(name, n) returns the entry registered for exactly
\* (name, n) when there is one; otherwise, for n > 0, the variadic entry
\* (name, -1) when one exists; otherwise, and for n = 0 whenever there is no
\* exact entry, an entry with Operation::None.
C15_VariadicAboveZero ==
  \A t \in EnvThreads : Found(t) =>
    eth[t].out[4] = IF LookedFor(t) \in DOMAIN LookedIn(t) THEN LookedIn(t)[LookedFor(t)]
                    ELSE IF eth[t].out[3] > 0 /\ VariadicOf(t) \in DOMAIN LookedIn(t)
                         THEN LookedIn(t)[VariadicOf(t)]
                    ELSE NoFunction

\* a look-up at arity 0 of a name that has a variadic entry and no entry of
\* arity 0 has returned Operation::None, and another thread's look-up at
\* arity 2 has returned the variadic entry
C15_Witness ==
  \E t, u \in EnvThreads :
    /\ Found(t) /\ eth[t].out[3] = 0 /\ eth[t].out[4] = NoFunction
    /\ VariadicOf(t) \in DOMAIN LookedIn(t)
    /\ Found(u) /\ eth[u].out[3] = 2 /\ eth[u].out[4].operation = "Callback"

\* the render has ended, by returning or by raising
Ended == rpc \in {"returned", "raised"}
\* the render is of a template `{{ a and b }}` or `{{ a or b }}`
LogicCase ==
  /\ rtmpl \in CaseTemplates /\ Len(AllItems[rtmpl]) = 1 /\ AllItems[rtmpl][1].s = "expr"
  /\ AllItems[rtmpl][1].e.e = "bin" /\ AllItems[rtmpl][1].e.op \in {"And", "Or"}
LogicExpr == AllItems[rtmpl][1].e
\* the first operand alone decides the result: false and _, true or _
FirstDecides == LogicExpr.args[1].v = JBool(LogicExpr.op = "Or")
\* the call of log in the second operand was made: log ran, or the caching
\* wrapper served it from the entry of an earlier render
LogCalled ==
  \/ renderer.executed = <<"log">>
  \/ Caching /\ config_.cache_void_callbacks /\ renderer.executed = <<>>
       /\ LogKey \in cache_map_ /\ renders > 1
\* the missing variable of the second operand raised or was recorded
BadReported ==
  IF Strict THEN RaisedRenderError /\ renderer.exc.message = "variable 'bad' not found"
  ELSE /\ Returned /\ Len(renderer.recovered) = 1
       /\ renderer.recovered[1].message = "variable 'bad' not found"
SecondEvaluated == IF LogicExpr.args[2].e = "call" THEN Returned /\ LogCalled ELSE BadReported
\* nothing of the second operand happened and the first operand's value
\* was written
SecondSkipped ==
  /\ Returned /\ renderer.executed = <<>> /\ renderer.recovered = <<>>
  /\ returned = (IF LogicExpr.op = "Or" THEN "true" ELSE "false")
  /\ renders = 1 => hits_ = 0 /\ misses_ = 0

\* C16 as stated: both operands of and / or are evaluated whatever the
\* first is
C16_BothOperands == (LogicCase /\ Ended) => SecondEvaluated

\* C16: `a and b` evaluates b only when a is true and `a or b` evaluates b
\* only when a is false: then a callback in b is invoked and a missing
\* variable in b raises (strict) or is recorded (graceful); when a alone
\* decides the result, b is not evaluated, its callback is not invoked and
\* its missing variable is neither raised nor recorded.
C16_ShortCircuit ==
  (LogicCase /\ Ended) => IF FirstDecides THEN SecondSkipped ELSE SecondEvaluated

\* `false and log(1)` or `true or log(1)` has been rendered without a
\* call of log
C16_Witness ==
  /\ LogicCase /\ Returned /\ FirstDecides /\ LogicExpr.args[2].e = "call"
  /\ renderer.executed = <<>>

\* ---------------------------------------------------------------------------
\* C17: super() outside a block
\* ---------------------------------------------------------------------------

\* the templates of SuperItems
SuperTemplates ==
  {i \in CaseTemplates :
     /\ i > Len(ClaimItems) + Len(OpItems) + Len(LogicItems)
     /\ i <= Len(ClaimItems) + Len(OpItems) + Len(LogicItems) + Len(SuperItems)}
\* the render is over: it returned, raised, or left defined behaviour
Over == rpc \in {"returned", "raised", "undefined"}

\* C17: a render of a template that calls super() outside a block ends by
\* raising the render error "super() call is not within a block", with
\* graceful errors on as well as off, and never reads the empty
\* block-statement stack (the read is undefined behaviour).
C17_SuperRaises ==
  (rtmpl \in SuperTemplates /\ Over) =>
     /\ rpc = "raised"
     /\ ~renderer.ub
     /\ RaisedRenderError
     /\ renderer.exc.message = "super() call is not within a block"

\* ---------------------------------------------------------------------------
\* C18: a failing set expression in graceful mode
\* ---------------------------------------------------------------------------

\* the templates of a sequence of items that follows `before` in CaseItems
CaseRange(before, items) ==
  {i \in CaseTemplates :
     /\ i > Len(ClaimItems) + Len(OpItems) + before
     /\ i <= Len(ClaimItems) + Len(OpItems) + before + Len(items)}
SetNullTemplates == CaseRange(Len(LogicItems) + Len(SuperItems), SetNullItems)
\* the set statement, the first node of the template, has been executed
SetDone == rtmpl \in SetNullTemplates /\ Graceful /\ rnode > 1

\* C18: with graceful errors enabled, {% set x = e %} with an expression e
\* that cannot be evaluated does not raise and binds x to null in
\* additional_data; the following {{ x }} finds x and writes nothing, and
\* the render goes on to the end of the template: it returns "[]Done".
C18_SetBindsNull ==
  /\ (rtmpl \in SetNullTemplates /\ Graceful) => rpc # "raised" /\ rpc # "undefined"
  /\ SetDone =>
       /\ "x" \in DOMAIN renderer.additional_data.o
       /\ renderer.additional_data.o["x"] = JNull
       /\ \A i \in 1..Len(renderer.recovered) :
            renderer.recovered[i].message # "variable 'x' not found"
  /\ (SetDone /\ rpc = "returned") => returned = "[]Done"

\* a graceful render of {% set x = bad %}[{{ x }}]Done has returned
C18_Witness ==
  /\ SetDone /\ rpc = "returned" /\ returned = "[]Done"
  /\ renderer.additional_data.o["x"] = JNull
  /\ Len(renderer.recovered) = 1

\* ---------------------------------------------------------------------------
\* C19: a for loop over a missing variable in graceful mode
\* ---------------------------------------------------------------------------

ForMissingTemplates ==
  CaseRange(Len(LogicItems) + Len(SuperItems) + Len(SetNullItems), ForMissingItems)
\* a graceful render of {% for item in e %}x{{ item }}{% endfor %}Done
ForMissing == rtmpl \in ForMissingTemplates /\ Graceful
\* the body of the loop ran: it wrote x, bound item, filled the loop data
\* render_to had left null, or reported item
BodyRan ==
  \/ renderer.out \notin {"", "Done"}
  \/ Contains(renderer.additional_data, <<"item">>)
  \/ PtrGet(renderer.additional_data, <<"loop">>) # JNull
  \/ \E i \in 1..Len(renderer.recovered) :
       renderer.recovered[i].message = "variable 'item' not found"

\* C19: with graceful errors enabled, a for loop whose collection is a
\* missing variable does not raise, never runs its body and writes nothing,
\* and the render goes on with the text after endfor: it returns "Done".
C19_ForMissingRunsNothing ==
  /\ ForMissing => ~Raised /\ ~BodyRan
  /\ (ForMissing /\ rnode > 1) => Len(renderer.recovered) = 1
  /\ (ForMissing /\ rnode = 2) => renderer.out = ""
  /\ (ForMissing /\ rpc = "returned") => returned = "Done"

\* a graceful render of {% for item in good.bad.items %}...{% endfor %}Done
\* has returned Done, with the missing collection on record
C19_Witness ==
  /\ ForMissing /\ rpc = "returned" /\ returned = "Done"
  /\ renderer.recovered[1].message = "variable 'good.bad.items' not found"

\* ---------------------------------------------------------------------------
\* C20: an if condition on a missing variable in graceful mode
\* ---------------------------------------------------------------------------

IfMissingFirst == Len(LogicItems) + Len(SuperItems) + Len(SetNullItems) + Len(ForMissingItems)
IfMissingTemplates == CaseRange(IfMissingFirst, IfMissingItems)
\* a graceful render of one of IfMissingItems has returned
IfMissingReturned == rtmpl \in IfMissingTemplates /\ Graceful /\ rpc = "returned"
\* the input has a true b
HasB == Contains(rdata, <<"b">>) /\ truthy(PtrGet(rdata, <<"b">>))
\* what the else branch, or the else-if chain, of the template writes
ElseOutput ==
  CASE AllItems[rtmpl] = IfMissingItems[1] -> "no"
    [] AllItems[rtmpl] = IfMissingItems[2] -> "C"
    [] AllItems[rtmpl] = IfMissingItems[3] -> IF HasB THEN "B" ELSE "C"
    [] AllItems[rtmpl] = IfMissingItems[4] -> "Done"

DefaultFirstIndex == IfMissingFirst + Len(IfMissingItems)
DefaultTemplates == CaseRange(DefaultFirstIndex, DefaultItems)
\* the case of the template rendered
DefaultCase == DefaultCases[rtmpl - Len(ClaimItems) - Len(OpItems) - DefaultFirstIndex]
\* x resolves in the input of the render
XResolves == Contains(rdata, convert_dot_to_ptr(DefaultCase.x))
\* the value `default` yields: x when it resolves, the fallback otherwise
DefaultValue ==
  IF XResolves THEN PtrGet(rdata, convert_dot_to_ptr(DefaultCase.x)) ELSE DefaultCase.fallback
\* what the tag writes for it, through upper where the case pipes it on
DefaultOutput ==
  IF DefaultCase.upper THEN ToUpper(DefaultValue.s)
  ELSE print_data([out |-> ""], Context, DefaultValue).out

\* C21: {{ x | default(fallback) }} writes the value of x whenever x
\* resolves (a null x included) and the fallback exactly when x is missing;
\* a missing x raises nothing in strict mode and records nothing in
\* graceful mode, and the result is passed on to a following filter.
C21_DefaultFallsBack ==
  /\ rtmpl \in DefaultTemplates => ~Raised /\ renderer.recovered = <<>>
  /\ (rtmpl \in DefaultTemplates /\ Returned) =>
       /\ returned = DefaultOutput
       /\ tl_render_errors_[RenderThread] = <<>>

\* a strict render of {{ good.bad | default("none") | upper }} has returned
\* the fallback in upper case
C21_Witness ==
  /\ rtmpl \in DefaultTemplates /\ Returned /\ Strict
  /\ ~XResolves /\ DefaultCase.upper /\ returned = "NONE"

\* ---------------------------------------------------------------------------
\* C22: the cache predicate
\* ---------------------------------------------------------------------------

\* the callbacks the template rendered calls, in the order of the calls
TemplateCalls ==
  IF rtmpl = Len(ClaimItems) THEN <<"log", "log">>
  ELSE IF rtmpl = AppendMissing THEN <<"append">>
  ELSE <<"twice", "append">>
\* a predicate is set and returns false for every callback of the template
AllVetoed ==
  /\ rtmpl \in VetoTemplates /\ Caching
  /\ should_cache_ # Nullptr
  /\ \A i \in 1..Len(TemplateCalls) : TemplateCalls[i] \notin should_cache_.names
\* entries, LRU order and counters of the cache
CacheState == <<cache_map_, lru_list_, hits_, misses_, evictions_>>

\* C22: when the cache predicate returns false for a function, every call
\* of it through the caching wrapper runs the callback, and no step of the
\* render changes the cache: entries, LRU order and the hit, miss and
\* eviction counters stay as they were.
C22_PredicateVeto ==
  /\ [][(rpc = "rendering" /\ AllVetoed) => UNCHANGED CacheState]_vars
  /\ []((Returned /\ AllVetoed) => renderer.executed = TemplateCalls)

\* after a render that cached log, a render of twice and append, both
\* vetoed, has returned with both callbacks run and the entry of log kept
C22_Witness ==
  /\ Returned /\ AllVetoed /\ renders = 2 /\ cache_map_ # {} /\ misses_ = 1
  /\ renderer.executed = <<"twice", "append">>

\* ---------------------------------------------------------------------------
\* C23: invalidate
\* ---------------------------------------------------------------------------

\* thread t runs invalidate(name) in this step
Invalidates(t, name) ==
  cth[t].pc = "idle" /\ cth'[t].pc = "invalidated" /\ cth'[t].key = name
\* the entries of list l that belong to other functions than name, in order
EntriesOfOthers(l, name) ==
  LET Other(e) == KeyFunction(e.key) # name IN SelectSeq(l, Other)

\* C23: invalidate(name) removes every entry of the function name whatever
\* its arguments, leaves the entries of the other functions as they were
\* (value, expiry, relative order), returns the number of entries it
\* removed, and right after it try_get misses for name with every argument
\* list.
C23_InvalidateByName ==
  [][\A t \in CacheThreads, name \in CacheNames :
       Invalidates(t, name) =>
         /\ lru_list_' = EntriesOfOthers(lru_list_, name)
         /\ cache_map_' = {lru_list_'[i].key : i \in 1..Len(lru_list_')}
         /\ cth'[t].time = Len(lru_list_) - Len(lru_list_')
         /\ \A key \in CacheKeys :
              KeyFunction(key) = name =>
                ~try_get_locked(CacheOf(cache_map_', lru_list_', hits_', misses_', evictions_'),
                                key, now').found]_vars

\* invalidate("f") has removed an entry of f and left the entry of ff
C23_Witness ==
  \E t \in CacheThreads :
    /\ cth[t].pc = "invalidated" /\ cth[t].key = "f" /\ cth[t].time = 1
    /\ cache_map_ = {"ff:1"}

\* ---------------------------------------------------------------------------
\* C24: the snapshots of render entry
\* ---------------------------------------------------------------------------

\* thread t is between the first and the last snapshot of render_to
TakingSnapshots(t) == eth[t].pc \in {"load_func", "snapshot_config"}
\* thread t goes from position `from` to position `to` in this step
Moves(t, from, to) == eth[t].pc = from /\ eth'[t].pc = to

\* C24 as stated: the three snapshots are one atomic step with respect to
\* writers: while a render is between them no storage is published and the
\* render configuration is not set.
C24_AtomicEntry ==
  [][(\E t \in EnvThreads : TakingSnapshots(t)) =>
       UNCHANGED <<template_storage_, function_storage_, render_config>>]_vars

\* C24: render_to takes its snapshots one by one: the template storage
\* published at its load, then the function storage published at its load,
\* then the render configuration, copied while no writer holds write_mutex_.
C24_SnapshotsOneByOne ==
  [][\A t \in EnvThreads :
       /\ Moves(t, "idle", "load_func") => eth'[t].tmpl_storage = template_storage_
       /\ Moves(t, "load_func", "snapshot_config") =>
            /\ eth'[t].func_storage = function_storage_
            /\ eth'[t].tmpl_storage = eth[t].tmpl_storage
       /\ Moves(t, "snapshot_config", "rendering") =>
            /\ write_mutex_ = NoThread
            /\ eth'[t].config_snapshot = render_config
            /\ eth'[t].tmpl_storage = eth[t].tmpl_storage
            /\ eth'[t].func_storage = eth[t].func_storage]_vars

\* a render has loaded the template storage and not yet the function
\* storage while a writer is about to publish a function storage
C24_Witness ==
  \E t, w \in EnvThreads :
    /\ eth[t].pc = "load_func"
    /\ eth[w].pc = "store" /\ ~OnTemplates(eth[w].op)

\* ---------------------------------------------------------------------------
\* C25: operators on a missing operand in graceful mode
\* ---------------------------------------------------------------------------

\* a graceful render of an operator template has returned, the missing
\* variable being an operand the operator evaluates
MissingOperandRendered ==
  /\ Graceful /\ Returned /\ rtmpl \in OpTemplates
  /\ ~IsDefault(OpExpressionOf(rtmpl)) /\ ~Decided(OpExpressionOf(rtmpl))

\* C25: with graceful errors enabled, an operator or built-in function with
\* a missing variable as operand yields the not-found sentinel: an
\* expression output is echoed as its source text and a set statement
\* assigns null, for comparison, logical, membership and type-check
\* operations as for arithmetic and string filters.
C25_MissingOperandIsSentinel ==
  /\ (MissingOperandRendered /\ OpPlaceOf(rtmpl) = 1) => returned = Templates[rtmpl].content
  /\ (MissingOperandRendered /\ OpPlaceOf(rtmpl) = 3) =>
       renderer.additional_data.o["v"] = JNull

\* ---------------------------------------------------------------------------
\* C26-C28: the in-place path of the set statement
\* ---------------------------------------------------------------------------

InplaceFirst == Len(LogicItems) + Len(SuperItems) + Len(SetNullItems) + Len(ForMissingItems)
                  + Len(IfMissingItems) + Len(DefaultItems)
InplaceTemplates == CaseRange(InplaceFirst, InplaceItems)

\* the render is about to visit a set statement of the root block
AtSet ==
  /\ rpc = "rendering" /\ ~Halted(renderer) /\ rnode <= Len(RootNodes)
  /\ RootNodes[rnode].k = "Set"
\* the function of the call `f(...)` that is the statement's expression
CallOf(node) == node.expression.root
\* the expression is a callback call whose first argument is a plain
\* reference to K, the storage holds an in-place callback for it at that
\* arity, and K exists in the additional data
InplaceApplies(node) ==
  /\ CallOf(node).k = "Function" /\ CallOf(node).operation = "Callback"
  /\ CallOf(node).arguments # <<>>
  /\ CallOf(node).arguments[1].k = "Data" /\ CallOf(node).arguments[1].name = node.key
  /\ LET f == <<CallOf(node).name, Len(CallOf(node).arguments)>>
     IN /\ f \in DOMAIN fheap[function_storage_]
        /\ fheap[function_storage_][f].operation = "Callback"
        /\ fheap[function_storage_][f].inplace_callback # NoCallback
  /\ Contains(renderer.additional_data, convert_dot_to_ptr(node.key))
\* the callbacks and the in-place callbacks the step has run
RanDuring == SubSeq(renderer'.executed, Len(renderer.executed) + 1, Len(renderer'.executed))
RanInplaceDuring ==
  SubSeq(renderer'.inplaced, Len(renderer.inplaced) + 1, Len(renderer'.inplaced))

\* C26: for `set K = expr` the in-place callback is invoked if and only if
\* the expression root is a callback call f(...), its first argument is a
\* plain reference to K, the storage holds an in-place callback for f at that
\* arity and K exists in the additional data; then only the in-place
\* callback runs, and otherwise the in-place callback never runs.
C26_InplaceIff ==
  [][(AtSet /\ rnode' = rnode + 1) =>
       /\ InplaceApplies(RootNodes[rnode]) <=> RanInplaceDuring # <<>>
       /\ InplaceApplies(RootNodes[rnode]) =>
            /\ RanInplaceDuring = <<CallOf(RootNodes[rnode]).name>>
            /\ RanDuring = RanInplaceDuring]_vars

\* the templates `set K = f(K, bad)` of InplaceItems: the in-place path with
\* append and with push, and the ordinary path (K only in the input)
MissingArgumentCases == {2, 3, 4}
MissingArgumentTemplates ==
  {i \in InplaceTemplates :
     i - Len(ClaimItems) - Len(OpItems) - InplaceFirst \in MissingArgumentCases}
\* the set statement with the missing argument is the last set statement of
\* its template, followed by one expression output: it has been executed
MissingArgumentSetDone ==
  /\ rtmpl \in MissingArgumentTemplates /\ rpc # "idle"
  /\ rnode >= Len(Templates[rtmpl].root.nodes)

\* C27: in strict mode `set K = f(K, a)` with a missing variable as a raises
\* a RenderError and invokes no callback, whether or not the in-place path
\* applies: a null argument never reaches the in-place callback or the
\* callback wrapper.
C27_MissingArgumentRaises ==
  (MissingArgumentSetDone /\ ~Graceful) =>
    /\ ~renderer.ub /\ renderer.exc # NoExc /\ renderer.exc.type = "RenderError"
    /\ renderer.executed = <<>> /\ renderer.inplaced = <<>>
    /\ renderer.traces = <<>>

\* the null sentinels on the evaluation stack
NullSentinels(stack) == Cardinality({i \in 1..Len(stack) : stack[i] = Nullptr})
\* the render is between two node visits of the root block, or has returned
BetweenVisits == rpc \in {"rendering", "returned"} /\ ~Halted(renderer)

\* C28: paired stacks.  Between node visits the number of null sentinels on
\* the evaluation stack equals the number of records on the not-found stack,
\* and after each statement or expression output both stacks are empty, in
\* strict and graceful mode, for every operator and for set statements that
\* take the in-place path.
C28_PairedStacks ==
  BetweenVisits =>
    /\ NullSentinels(renderer.stack) = Len(renderer.nf)
    /\ renderer.stack = <<>> /\ renderer.nf = <<>>

\* ---------------------------------------------------------------------------
\* C29: try_get leaves the entries and their order alone
\* ---------------------------------------------------------------------------

\* thread t runs the locked section of try_get in this step
GetStep(t) == cth[t].pc = "get" /\ cth'[t].pc = "got"
\* thread t puts a new key into a full cache that holds no expired entry
PutsNewIntoFull(t) ==
  /\ cth[t].pc = "put" /\ cth'[t].pc = "idle"
  /\ cth[t].key \notin cache_map_
  /\ config_.max_entries > 0 /\ Cardinality(cache_map_) = config_.max_entries
  /\ \A i \in 1..Len(lru_list_) : lru_list_[i].expiry > now
\* the entry held whose most recent put is the oldest
OldestPut ==
  CHOOSE k \in cache_map_ : \A k2 \in cache_map_ : stored[k].seq <= stored[k2].seq

\* C29: try_get changes neither the stored entries nor their expiry nor
\* their order; a put of a new key into a full cache without expired
\* entries evicts exactly one entry, the one whose most recent put is the
\* oldest, whatever try_get hits came in between.
C29_GetIsReadOnly ==
  [][\A t \in CacheThreads :
       /\ GetStep(t) => UNCHANGED <<cache_map_, lru_list_, evictions_>>
       /\ PutsNewIntoFull(t) =>
            /\ cache_map_' = (cache_map_ \ {OldestPut}) \cup {cth[t].key}
            /\ evictions_' = evictions_ + 1
            /\ Len(lru_list_') = Len(lru_list_)]_vars
\* a look-up hit an entry, and before its caller consumed the result a put
\* to the full cache evicted that entry, the oldest put, and kept the other
C29_Witness ==
  \E t \in CacheThreads :
    /\ cth[t].pc = "got" /\ cth[t].found /\ cth[t].key \notin cache_map_
    /\ now = 0 /\ evictions_ = 1 /\ hits_ = 1
    /\ config_.max_entries = 2 /\ Cardinality(cache_map_) = 2

\* ---------------------------------------------------------------------------
\* C30: the function registry only grows
\* ---------------------------------------------------------------------------

\* the storage find_function resolves in, before and after a step
PublishedFunctions == fheap[function_storage_]
PublishedFunctionsAfter == fheap'[function_storage_']
\* (name, n) resolves
Resolves(storage, name, n) == find_function(storage, name, n).operation # "None"

\* C30 as stated: after add_callback(name, n, cb) every (name', n') that
\* resolved before resolves to the same operation and callback.
C30_ResolutionKept ==
  [][\A name \in LookupNames, n \in LookupArities :
       Resolves(PublishedFunctions, name, n) =>
         find_function(PublishedFunctionsAfter, name, n)
           = find_function(PublishedFunctions, name, n)]_vars

\* C30: the registry is append-only.  After add_callback(name, n, cb) every
\* entry registered before, built-in or callback, is kept as it was, the
\* one of (name, n) included, so the callback of a second registration is
\* not installed; every pair that has its own entry resolves as before, and
\* every pair that resolved before still resolves.
C30_EntriesKept ==
  [][/\ \A k \in DOMAIN PublishedFunctions :
          /\ k \in DOMAIN PublishedFunctionsAfter
          /\ PublishedFunctionsAfter[k] = PublishedFunctions[k]
     /\ \A name \in LookupNames, n \in LookupArities :
          /\ <<name, n>> \in DOMAIN PublishedFunctions =>
               find_function(PublishedFunctionsAfter, name, n)
                 = find_function(PublishedFunctions, name, n)
          /\ Resolves(PublishedFunctions, name, n) =>
               Resolves(PublishedFunctionsAfter, name, n)]_vars
\* a second add_callback of a registered pair, with another callback, has
\* copied the storage: the copy holds the earlier callback
C30_Witness ==
  \E t \in EnvThreads :
    /\ eth[t].pc = "store" /\ eth[t].op[1] = "add_callback"
    /\ <<eth[t].op[2], eth[t].op[3]>> \in DOMAIN PublishedFunctions
    /\ PublishedFunctions[<<eth[t].op[2], eth[t].op[3]>>].operation = "Callback"
    /\ PublishedFunctions[<<eth[t].op[2], eth[t].op[3]>>].callback # eth[t].op[4]
    /\ eth[t].new_storage = PublishedFunctions

\* ---------------------------------------------------------------------------
\* C31: loops over a value of the wrong type in graceful mode
\* ---------------------------------------------------------------------------

LoopFirst == InplaceFirst + Len(InplaceItems)
WrongTypeTemplates == CaseRange(LoopFirst, WrongTypeItems)
\* the loop statement that is the first item of the template rendered
LoopItem == AllItems[rtmpl][1]
\* the value the loop's expression, a variable of the input, evaluates to
LoopValue == Member(rdata, convert_dot_to_ptr(LoopItem.e.name), 1)
\* the expression has a value and it is not what the loop iterates
WrongType ==
  /\ LoopValue # Nullptr
  /\ LoopValue.t # (IF LoopItem.s = "for" THEN "arr" ELSE "obj")
\* the loop statement, the first node of the template, has been visited
LoopVisited == rpc # "idle" /\ rnode >= 2

\* C31: with graceful errors enabled, a `for x in expr` whose expression is
\* not an array (`for k, v in expr`: not an object) records an error and
\* skips the loop: the body runs zero times and the loop writes nothing.
C31_WrongTypeSkipsLoop ==
  (Graceful /\ rtmpl \in WrongTypeTemplates /\ WrongType /\ LoopVisited) =>
    /\ ~Halted(renderer)
    /\ Len(renderer.render_errors) = 1
    /\ rnode = 2 => renderer.out = ""
    /\ LoopItem.value \notin DOMAIN renderer.additional_data.o
    /\ PtrGet(renderer.additional_data, <<"loop">>) = JNull

\* ---------------------------------------------------------------------------
\* C32: the loop data during the iterations
\* ---------------------------------------------------------------------------

IndexTemplates == CaseRange(LoopFirst + Len(WrongTypeItems), IndexItems)
\* the collection a loop of these templates runs over
CollectionOf(e) ==
  IF e.e = "lit" THEN e.v ELSE Member(rdata, convert_dot_to_ptr(e.name), 1)
IsLoop(item) == item.s \in {"for", "forobject"}
\* the loop nested in the loop of the template rendered, if there is one
HasNested == IsLoop(LoopItem.body[1])
OuterSize == Size(CollectionOf(LoopItem.e))
NestedSize == IF HasNested THEN Size(CollectionOf(LoopItem.body[1].e)) ELSE 0
BoolText(b) == IF b THEN "true" ELSE "false"
\* what LoopStatus prints in iteration i of a loop over n elements
StatusText(i, n, end) ==
  ToString(i) \o ToString(i + 1) \o BoolText(i = 0) \o BoolText(i = n - 1) \o end
RECURSIVE NestedText(_, _, _, _)
NestedText(j, m, i, n) ==
  IF j >= m THEN ""
  ELSE StatusText(i, n, ":") \o StatusText(j, m, ",") \o NestedText(j + 1, m, i, n)
RECURSIVE LoopText(_, _, _)
LoopText(i, n, m) ==
  IF i >= n THEN ""
  ELSE NestedText(0, m, i, n) \o StatusText(i, n, ";") \o LoopText(i + 1, n, m)

\* C32: in iteration i (from 0) of a loop over n elements loop.index = i,
\* loop.index1 = i + 1, loop.is_first iff i = 0 and loop.is_last iff
\* i = n - 1; in a nested loop loop.parent holds the enclosing loop's values,
\* after it the enclosing loop's values are back in loop, and a loop over 0
\* elements runs its body 0 times.
C32_LoopData ==
  (rtmpl \in IndexTemplates /\ LoopVisited) =>
    /\ ~Halted(renderer)
    /\ renderer.out = LoopText(0, OuterSize, NestedSize)
\* a loop over three or more elements with a nested loop of two has been
\* rendered, and so has a loop over no element
C32_Witness ==
  /\ rtmpl \in IndexTemplates /\ LoopVisited
  /\ HasNested /\ OuterSize >= 3 /\ NestedSize = 2
  /\ renderer.out = LoopText(0, OuterSize, NestedSize)

\* ---------------------------------------------------------------------------
\* C33: the events of a for loop
\* ---------------------------------------------------------------------------

Instrumented == config_snapshot # Nullptr /\ config_snapshot.instrumentation
IsLoopEvent(ev) == ev[1] \in {"ForLoopStart", "ForLoopIteration", "ForLoopEnd"}
\* the loop events emitted so far: each event and its count
LoopEvents ==
  LET evs == SelectSeq(renderer.events, IsLoopEvent)
  IN [i \in 1..Len(evs) |-> <<evs[i][1], evs[i][4]>>]
\* the events of a loop over n elements
EventsOfLoop(n) ==
  <<<<"ForLoopStart", n>>>> \o [i \in 1..n |-> <<"ForLoopIteration", 0>>]
    \o <<<<"ForLoopEnd", n>>>>
EventNames(evs) == [i \in 1..Len(evs) |-> evs[i][1]]

\* C33: with an instrumentation callback, a for loop over n elements emits,
\* in this order, one ForLoopStart (count n), one ForLoopIteration for each
\* of the n iterations, and one ForLoopEnd (count n).
C33_LoopEvents ==
  (Instrumented /\ rtmpl \in IndexTemplates /\ ~HasNested /\ LoopVisited) =>
    /\ EventNames(LoopEvents) = EventNames(EventsOfLoop(OuterSize))
    /\ LoopEvents[1] = <<"ForLoopStart", OuterSize>>
    /\ LoopEvents[Len(LoopEvents)] = <<"ForLoopEnd", OuterSize>>

\* ---------------------------------------------------------------------------
\* C34: expired entries after a put
\* ---------------------------------------------------------------------------

\* the entries of the list that have expired at time tnow
ExpiredAt(l, tnow) == {i \in 1..Len(l) : l[i].expiry <= tnow}
\* the list is ordered by non-increasing expiry from front to back
ExpiryOrdered(l) == \A i, j \in 1..Len(l) : i < j => l[i].expiry >= l[j].expiry

\* C34: after any put returns, no entry whose expiry is at or before that
\* put's clock reading (the one its own expiry is computed from) remains
\* stored, the list being ordered by non-increasing expiry from front to
\* back, also when several threads call put concurrently.
C34_NoExpiredAfterPut ==
  [][\A t \in CacheThreads :
       PutLocked(t) => /\ ExpiredAt(lru_list_', cth[t].time) = {}
                       /\ ExpiryOrdered(lru_list_')]_vars

\* ---------------------------------------------------------------------------
\* C35: the cache a snapshotted wrapper runs on
\* ---------------------------------------------------------------------------

\* the render of thread t holds a caching wrapper in its configuration
HoldsWrapper(t) ==
  eth[t].pc \in {"rendering", "undefined"} /\ eth[t].config_snapshot.callback_wrapper # 0

\* C35: a render that snapshotted the caching wrapper never invokes it on a
\* CallbackCache that has been destroyed, whatever disable_callback_cache,
\* enable_callback_cache or set_callback_cache other threads call meanwhile.
C35_WrapperCacheAlive ==
  \A t \in EnvThreads : HoldsWrapper(t) => eth[t].pc # "undefined"

\* ---------------------------------------------------------------------------
\* C36: the current template after a block statement and after super()
\* ---------------------------------------------------------------------------

BlockFirst == LoopFirst + Len(LoopItems)
BlockTemplates == CaseRange(BlockFirst, BlockItems)
BlockCase == BlockCases[rtmpl - Len(ClaimItems) - Len(OpItems) - BlockFirst]
\* the render has ended: it returned, raised or went undefined
RenderOver == rpc \in {"returned", "raised", "undefined"}

\* C36: after a block statement finishes rendering, and after a super()
\* call returns, the current template and inheritance level are the ones in
\* effect just before it, so the text that follows a nested block inside a
\* block body is read from the template that contains it.
C36_BlockRestoresTemplate ==
  (rtmpl \in BlockTemplates /\ RenderOver) =>
    /\ rpc = "returned"
    /\ returned = BlockCase.out

\* ---------------------------------------------------------------------------
\* C37: member access on a computed value
\* ---------------------------------------------------------------------------

MemberFirst == BlockFirst + Len(BlockItems)
MemberTemplates == CaseRange(MemberFirst, AtIdItems)
MemberCase == AtIdCases[rtmpl - Len(ClaimItems) - Len(OpItems) - MemberFirst]
\* the render got past the expressions in front of the member access: in
\* strict mode an expression that finds no variable ends the render
ReachesAtId == Graceful \/ MemberCase.before = ""

\* C37: a member access on a computed value never reads or pops the empty
\* not-found stack, in strict and in graceful mode, and when the member
\* name is also a variable of the data or a zero-argument callback the
\* result is still the container's member of that name and the callback is
\* not invoked.
C37_MemberOfComputed ==
  (rtmpl \in MemberTemplates /\ RenderOver /\ ReachesAtId) =>
    /\ rpc = "returned"
    /\ returned = MemberCase.before \o MemberCase.out
    /\ ~renderer.ub
    /\ MemberCase.member \notin {renderer.executed[i] : i \in DOMAIN renderer.executed}

\* ---------------------------------------------------------------------------
\* C38: the loop variable after the loop
\* ---------------------------------------------------------------------------

ShadowFirst == MemberFirst + Len(AtIdItems)
ShadowTemplates == CaseRange(ShadowFirst, ShadowItems)
ShadowCase == ShadowCases[rtmpl - Len(ClaimItems) - Len(OpItems) - ShadowFirst]

\* C38: after a for loop ends, its loop variable (and the key variable of
\* an object loop) no longer shadows a variable of the input data or an
\* earlier binding of the same name, also after a loop over an empty
\* collection: a read of the name behind the loop yields what it yielded in
\* front of the loop.
C38_LoopVariableUnbound ==
  (rtmpl \in ShadowTemplates /\ RenderOver) =>
    /\ rpc = "returned"
    /\ returned = ShadowCase.out

\* ---------------------------------------------------------------------------
\* C39: the additional data of an included template
\* ---------------------------------------------------------------------------

IncludeFirst == ShadowFirst + Len(ShadowItems)
IncludeTemplates == CaseRange(IncludeFirst, IncludeItems)
IncludeCase == IncludeCases[rtmpl - Len(ClaimItems) - Len(OpItems) - IncludeFirst]
\* the names bound in the renderer's additional data
BoundNames == DOMAIN renderer.additional_data.o

\* C39: an included template starts from a copy of the including template's
\* additional data (it reads the x bound in front of the include), and a
\* variable set inside the include is not visible afterwards to the
\* including template: x reads as before and y is not bound.
C39_IncludeCopiesData ==
  (rtmpl \in IncludeTemplates /\ RenderOver) =>
    /\ rpc = "returned"
    /\ returned = IncludeCase.out
    /\ "y" \notin BoundNames
C39_Witness ==
  /\ rtmpl \in IncludeTemplates
  /\ rpc = "returned"
  /\ returned = "1251"
  /\ "x" \in BoundNames

\* ---------------------------------------------------------------------------
\* C40: the divisor 0
\* ---------------------------------------------------------------------------

ZeroFirst == IncludeFirst + Len(IncludeItems)
ZeroTemplates == CaseRange(ZeroFirst, ZeroItems)
\* the expression of the template rendered
ZeroExpression == AllItems[rtmpl][1].e
IsModulo == ZeroExpression.e = "bin"

\* C40: `a % 0` raises a RenderError in strict mode and is recorded as a
\* failed operation in graceful mode, the expression echoed in the output;
\* divisibleBy(a, 0) yields false without dividing.
C40_ZeroDivisor ==
  (rtmpl \in ZeroTemplates /\ RenderOver) =>
    /\ ~renderer.ub
    /\ (IsModulo /\ Strict) => (rpc = "raised" /\ renderer.exc.type = "RenderError")
    /\ (IsModulo /\ Graceful) =>
         /\ rpc = "returned"
         /\ returned = Templates[rtmpl].content
         /\ Len(renderer.render_errors) = 1
    /\ ~IsModulo => (rpc = "returned" /\ returned = "false")

====
